---- MODULE Spec2Model ----
(***************************************************************************)
(* Regression engine of the CVC application: performRegression and its     *)
(* helpers (transpose, multiply, inverse, solveOLS).                        *)
(*                                                                         *)
(* The repository holds two copies of the engine: the one in src/types.ts  *)
(* (lines 73-535), which runs the pre-fit safety checks A and B, and the   *)
(* one in src/unnamed/part_001, which has none.  The variable `variant`    *)
(* selects the copy that a run executes; everything else is shared.        *)
(*                                                                         *)
(* JavaScript numbers are modelled as exact rationals extended with NaN    *)
(* and +/-Infinity (IEEE-754 rules for the special values, no rounding);   *)
(* the robustness summary is modelled a second time on doubles with their  *)
(* rounding and overflow.                                                  *)
(***************************************************************************)
EXTENDS Integers, Sequences, FiniteSets, TLC

(***************************************************************************)
(* JavaScript numbers                                                      *)
(***************************************************************************)
RECURSIVE GCD(_, _)
GCD(a, b) == IF b = 0 THEN a ELSE GCD(b, a % b)

AbsInt(i) == IF i < 0 THEN -i ELSE i

\* A finite number n/d in lowest terms with a positive denominator.
Fin(n, d) ==
    LET s == IF d < 0 THEN -1 ELSE 1
        g == GCD(AbsInt(n), AbsInt(d))
    IN  [k |-> "fin", n |-> (s * n) \div g, d |-> (s * d) \div g]

Num(i) == [k |-> "fin", n |-> i, d |-> 1]
NaN == [k |-> "nan", n |-> 0, d |-> 1]
PInf == [k |-> "inf", n |-> 1, d |-> 1]
NInf == [k |-> "inf", n |-> -1, d |-> 1]
Zero == Num(0)
One == Num(1)

isNaN(x) == x.k = "nan"
IsFinite(x) == x.k = "fin"
SignOf(x) == IF x.n > 0 THEN 1 ELSE IF x.n < 0 THEN -1 ELSE 0
InfOf(s) == IF s < 0 THEN NInf ELSE PInf

\* x + y
Add(x, y) ==
    IF isNaN(x) \/ isNaN(y) THEN NaN
    ELSE IF x.k = "inf" /\ y.k = "inf" THEN (IF x.n = y.n THEN x ELSE NaN)
    ELSE IF x.k = "inf" THEN x
    ELSE IF y.k = "inf" THEN y
    ELSE LET g == GCD(x.d, y.d)
         IN  Fin(x.n * (y.d \div g) + y.n * (x.d \div g), (x.d \div g) * y.d)

Neg(x) == IF isNaN(x) THEN NaN ELSE [x EXCEPT !.n = -x.n]

\* x - y
Sub(x, y) == Add(x, Neg(y))

\* x * y
Mul(x, y) ==
    IF isNaN(x) \/ isNaN(y) THEN NaN
    ELSE IF x.k = "inf" \/ y.k = "inf"
         THEN (IF SignOf(x) * SignOf(y) = 0 THEN NaN ELSE InfOf(SignOf(x) * SignOf(y)))
    ELSE LET g1 == GCD(AbsInt(x.n), y.d)
             g2 == GCD(AbsInt(y.n), x.d)
         IN  Fin((x.n \div g1) * (y.n \div g2), (x.d \div g2) * (y.d \div g1))

\* x / y (a zero divisor is +0)
Div(x, y) ==
    IF isNaN(x) \/ isNaN(y) THEN NaN
    ELSE IF x.k = "inf" /\ y.k = "inf" THEN NaN
    ELSE IF x.k = "inf" THEN InfOf(SignOf(x) * (IF SignOf(y) < 0 THEN -1 ELSE 1))
    ELSE IF y.k = "inf" THEN Zero
    ELSE IF y.n = 0 THEN (IF x.n = 0 THEN NaN ELSE InfOf(SignOf(x)))
    ELSE LET g1 == GCD(AbsInt(x.n), AbsInt(y.n))
             g2 == GCD(y.d, x.d)
         IN  Fin((x.n \div g1) * (y.d \div g2), (x.d \div g2) * (y.n \div g1))

\* x < y, false when either side is NaN
Lt(x, y) ==
    IF isNaN(x) \/ isNaN(y) THEN FALSE
    ELSE IF x.k = "inf" THEN (x.n < 0 /\ ~(y.k = "inf" /\ y.n < 0))
    ELSE IF y.k = "inf" THEN y.n > 0
    ELSE x.n * y.d < y.n * x.d

\* x <= y, false when either side is NaN
Le(x, y) == ~isNaN(x) /\ ~isNaN(y) /\ ~Lt(y, x)

\* Math.abs
Abs(x) == IF isNaN(x) THEN NaN ELSE [x EXCEPT !.n = AbsInt(x.n)]

\* Math.abs(x) < 10^-e, computed without leaving 32-bit integers:
\* |n|/d < 10^-e  iff  |n| <= floor((d - 1) / 10^e).
RECURSIVE DivPow10(_, _)
DivPow10(v, e) == IF e = 0 THEN v ELSE DivPow10(v \div 10, e - 1)

AbsBelow(x, e) == IsFinite(x) /\ AbsInt(x.n) <= DivPow10(x.d - 1, e)

\* Math.abs(x) > 10^-e:  |n|/d > 10^-e  iff  |n| > floor(d / 10^e).
AbsAbove(x, e) ==
    \/ x.k = "inf"
    \/ IsFinite(x) /\ AbsInt(x.n) > DivPow10(x.d, e)

(***************************************************************************)
(* Matrix kernel                                                           *)
(***************************************************************************)
\* Tolerances are written as decimal exponents: 1e-10 and 1e-9.
PIVOT_EPS_EXP == 10
EPS_EXP == 9

transpose(m) == [i \in 1..Len(m[1]) |-> [r \in 1..Len(m) |-> m[r][i]]]

\* sum += m1[i][k] * m2[k][j] for k = 0 .. m1[0].length - 1, starting from 0
RECURSIVE DotFrom(_, _, _, _, _, _)
DotFrom(m1, m2, i, j, k, sum) ==
    IF k > Len(m1[1]) THEN sum
    ELSE DotFrom(m1, m2, i, j, k + 1, Add(sum, Mul(m1[i][k], m2[k][j])))

multiply(m1, m2) ==
    [i \in 1..Len(m1) |-> [j \in 1..Len(m2[1]) |-> DotFrom(m1, m2, i, j, 1, Zero)]]

\* FirstSwapRow taking the last usable row below i instead of the first.
RECURSIVE FirstSwapRow_Last(_, _, _)
FirstSwapRow_Last(matrix, i, k) ==
    IF k > Len(matrix) THEN 0
    ELSE LET later == FirstSwapRow_Last(matrix, i, k + 1)
         IN  IF later # 0 THEN later
             ELSE IF AbsAbove(matrix[k][i], PIVOT_EPS_EXP) THEN k
             ELSE 0

\* The first row k below i with |matrix[k][i]| > 1e-10; 0 when there is none.
RECURSIVE FirstSwapRow(_, _, _)
FirstSwapRow(matrix, i, k) ==
    IF k > Len(matrix) THEN 0
    ELSE IF AbsAbove(matrix[k][i], PIVOT_EPS_EXP) THEN k
    ELSE FirstSwapRow(matrix, i, k + 1)

SwapRows(mat, i, k) == [mat EXCEPT ![i] = mat[k], ![k] = mat[i]]

\* Scale row i of mat by the pivot, then subtract factor * (scaled row i) from
\* every other row k, where factor = matrix[k][i] is read from the working
\* matrix `matrix` (mat is the working matrix itself or the identity side).
Eliminate(mat, matrix, i, pivot) ==
    LET rowI == [j \in 1..Len(mat[i]) |-> Div(mat[i][j], pivot)]
    IN  [k \in 1..Len(mat) |->
            IF k = i THEN rowI
            ELSE [j \in 1..Len(mat[k]) |-> Sub(mat[k][j], Mul(matrix[k][i], rowI[j]))]]

\* One pass of the outer loop of inverse for row i.
InverseStep(st, i) ==
    LET needSwap == AbsBelow(st.matrix[i][i], PIVOT_EPS_EXP)
        k == FirstSwapRow(st.matrix, i, i + 1)
    IN  IF needSwap /\ k = 0 THEN [ok |-> FALSE, matrix |-> st.matrix, identity |-> st.identity]
        ELSE LET mat1 == IF needSwap THEN SwapRows(st.matrix, i, k) ELSE st.matrix
                 id1 == IF needSwap THEN SwapRows(st.identity, i, k) ELSE st.identity
                 pivot == mat1[i][i]
             IN  [ok |-> TRUE,
                  matrix |-> Eliminate(mat1, mat1, i, pivot),
                  identity |-> Eliminate(id1, mat1, i, pivot)]

RECURSIVE InverseFrom(_, _)
InverseFrom(st, i) ==
    IF ~st.ok \/ i > Len(st.matrix) THEN st
    ELSE InverseFrom(InverseStep(st, i), i + 1)

\* inverse(m): ok = FALSE stands for the thrown singular-matrix Error,
\* otherwise m is the returned matrix.
inverse(m) ==
    LET identity == [i \in 1..Len(m) |-> [j \in 1..Len(m[i]) |-> IF i = j THEN One ELSE Zero]]
        st == InverseFrom([ok |-> TRUE, matrix |-> m, identity |-> identity], 1)
    IN  [ok |-> st.ok, m |-> st.identity]

\* solveOLS returning estimates of 0 where inverse fails.
solveOLS_NeverNull(X, Y) ==
    LET X_T == transpose(X)
        XTX_inv == inverse(multiply(X_T, X))
    IN  IF ~XTX_inv.ok THEN [ok |-> TRUE, beta |-> [r \in 1..Len(X_T) |-> Zero]]
        ELSE LET Beta == multiply(XTX_inv.m, multiply(X_T, [i \in 1..Len(Y) |-> <<Y[i]>>]))
             IN  [ok |-> TRUE, beta |-> [r \in 1..Len(Beta) |-> Beta[r][1]]]

\* solveOLS(X, Y): ok = FALSE stands for the returned null.
solveOLS(X, Y) ==
    LET Y_mat == [i \in 1..Len(Y) |-> <<Y[i]>>]
        X_T == transpose(X)
        XTX == multiply(X_T, X)
        XTX_inv == inverse(XTX)
    IN  IF ~XTX_inv.ok THEN [ok |-> FALSE, beta |-> <<>>]
        ELSE LET Beta == multiply(XTX_inv.m, multiply(X_T, Y_mat))
             IN  [ok |-> TRUE, beta |-> [r \in 1..Len(Beta) |-> Beta[r][1]]]

(***************************************************************************)
(* Cell values of a DataRow and the JavaScript conversions applied to them *)
(***************************************************************************)
\* A cell is a number, a string, null, or undefined (the column is absent).
NumCell(x) == [t |-> "number", num |-> x, str |-> ""]
StrCell(s) == [t |-> "string", num |-> Zero, str |-> s]
Null == [t |-> "null", num |-> Zero, str |-> ""]
Undefined == [t |-> "undefined", num |-> Zero, str |-> ""]

\* Number(string) for the strings that occur in the data: the empty string
\* converts to 0, a decimal literal to its value, any other text to NaN.
StringToNumber(s) ==
    CASE s = "" -> Zero
      [] s = "2" -> Num(2)
      [] s = "Infinity" -> PInf
      [] OTHER -> NaN

\* Number(v)
Number(c) ==
    CASE c.t = "number" -> c.num
      [] c.t = "null" -> Zero
      [] c.t = "undefined" -> NaN
      [] OTHER -> StringToNumber(c.str)

Digits == <<"0", "1", "2", "3", "4", "5", "6", "7", "8", "9">>

RECURSIVE NatToString(_)
NatToString(i) ==
    IF i < 10 THEN Digits[i + 1] ELSE NatToString(i \div 10) \o Digits[(i % 10) + 1]

\* String(number); the cells of the model hold integers, NaN or +/-Infinity.
NumberToString(x) ==
    CASE x.k = "nan" -> "NaN"
      [] x.k = "inf" -> (IF x.n < 0 THEN "-Infinity" ELSE "Infinity")
      [] OTHER -> (IF x.n < 0 THEN "-" \o NatToString(-x.n) ELSE NatToString(x.n))

\* String(v)
String(c) ==
    CASE c.t = "number" -> NumberToString(c.num)
      [] c.t = "null" -> "null"
      [] c.t = "undefined" -> "undefined"
      [] OTHER -> c.str

\* val === null || val === undefined || val === ''
IsMissing(c) == c.t = "null" \/ c.t = "undefined" \/ (c.t = "string" /\ c.str = "")

\* UTF-16 code units of the strings that can become category levels.
CodeUnits(s) ==
    CASE s = "A" -> <<65>>
      [] s = "B" -> <<66>>
      [] s = "C" -> <<67>>
      [] s = "b" -> <<98>>
      [] s = "2" -> <<50>>
      [] s = "10" -> <<49, 48>>
      [] s = "abc" -> <<97, 98, 99>>
      [] s = "null" -> <<110, 117, 108, 108>>
      [] OTHER -> <<>>

\* s sorts strictly before t under Array.prototype.sort's default comparison
\* (code-unit order, a proper prefix first).
RECURSIVE SeqLess(_, _)
SeqLess(u, v) ==
    IF v = <<>> THEN FALSE
    ELSE IF u = <<>> THEN TRUE
    ELSE IF Head(u) # Head(v) THEN Head(u) < Head(v)
    ELSE SeqLess(Tail(u), Tail(v))

StrLess(s, t) == SeqLess(CodeUnits(s), CodeUnits(t))

\* Array.from(new Set(strings)).sort() given the set of distinct strings.
RECURSIVE SortStrings(_)
SortStrings(S) ==
    IF S = {} THEN <<>>
    ELSE LET m == CHOOSE x \in S : \A z \in S \ {x} : StrLess(x, z)
         IN  <<m>> \o SortStrings(S \ {m})

\* Math.log, to one decimal place on the integers 1..8
LN_TENTHS == <<0, 7, 11, 14, 16, 18, 19, 21>>

MathLog(x) ==
    IF isNaN(x) THEN NaN
    ELSE IF x.k = "inf" THEN (IF x.n > 0 THEN PInf ELSE NaN)
    ELSE IF x.n < 0 THEN NaN
    ELSE IF x.n = 0 THEN NInf
    ELSE IF x.d = 1 /\ x.n <= Len(LN_TENTHS) THEN Fin(LN_TENTHS[x.n], 10)
    ELSE NaN

\* Math.log1p
MathLog1p(x) == MathLog(Add(x, One))

getLogVal(val, plusOne) == IF plusOne THEN MathLog1p(val) ELSE MathLog(val)

\* Math.min(...values) and Math.max(...values)
RECURSIVE MathMin(_)
MathMin(values) ==
    IF values = <<>> THEN PInf
    ELSE LET h == Head(values)
             r == MathMin(Tail(values))
         IN  IF isNaN(h) \/ isNaN(r) THEN NaN ELSE IF Lt(h, r) THEN h ELSE r

RECURSIVE MathMax(_)
MathMax(values) ==
    IF values = <<>> THEN NInf
    ELSE LET h == Head(values)
             r == MathMax(Tail(values))
         IN  IF isNaN(h) \/ isNaN(r) THEN NaN ELSE IF Lt(r, h) THEN h ELSE r

(***************************************************************************)
(* performRegression: preprocessing                                        *)
(***************************************************************************)
\* The target part of the cleanData filter callback.
TargetValid(row, targetVar, targetLogTransform, targetLogPlusOne) ==
    LET yVal == Number(row[targetVar])
    IN  IF isNaN(yVal) THEN FALSE
        ELSE IF targetLogTransform /\ targetLogPlusOne /\ Le(yVal, Num(-1)) THEN FALSE
        ELSE IF targetLogTransform /\ ~targetLogPlusOne /\ Le(yVal, Zero) THEN FALSE
        ELSE TRUE

\* FeatureValid with the domain bounds themselves accepted (< for <=).
FeatureValid_BoundAccepted(row, f) ==
    LET val == row[f.name]
        numVal == Number(val)
    IN  IF IsMissing(val) THEN FALSE
        ELSE IF f.type = "numeric" /\ f.logTransform
             THEN (IF isNaN(numVal) THEN FALSE
                   ELSE IF f.logPlusOne THEN ~Lt(numVal, Num(-1))
                   ELSE ~Lt(numVal, Zero))
        ELSE TRUE

\* The callback of featureVars.every in the cleanData filter.
FeatureValid(row, f) ==
    LET val == row[f.name]
        numVal == Number(val)
    IN  IF IsMissing(val) THEN FALSE
        ELSE IF f.type = "numeric" /\ f.logTransform
             THEN (IF isNaN(numVal) THEN FALSE
                   ELSE IF f.logPlusOne THEN ~Le(numVal, Num(-1))
                   ELSE ~Le(numVal, Zero))
        ELSE TRUE

\* The cleanData filter callback.
IsValidRow(row, targetVar, featureVars, targetLogTransform, targetLogPlusOne) ==
    /\ TargetValid(row, targetVar, targetLogTransform, targetLogPlusOne)
    /\ \A i \in 1..Len(featureVars) : FeatureValid(row, featureVars[i])

\* CleanRows with the filter testing the target only.
CleanRows_TargetOnly(rows, targetVar, featureVars, targetLogTransform, targetLogPlusOne) ==
    SelectSeq(rows, LAMBDA row :
        TargetValid(row, targetVar, targetLogTransform, targetLogPlusOne))

\* cleanData = data.filter(...)
CleanRows(rows, targetVar, featureVars, targetLogTransform, targetLogPlusOne) ==
    SelectSeq(rows, LAMBDA row :
        IsValidRow(row, targetVar, featureVars, targetLogTransform, targetLogPlusOne))

\* IsEmptyDataset that never reports an empty dataset.
IsEmptyDataset_Never(clean) == Len(clean) < 0

\* cleanData.length === 0
IsEmptyDataset(clean) == Len(clean) = 0

(***************************************************************************)
(* performRegression: pre-fit safety checks (src/types.ts only)            *)
(***************************************************************************)
\* cleanData.map(r => Number(r[name]))
ColumnValues(clean, name) == [i \in 1..Len(clean) |-> Number(clean[i][name])]

\* Check A for one feature: Math.abs(max - min) < 1e-9
IsConstant(clean, f) ==
    /\ f.type = "numeric"
    /\ AbsBelow(Sub(MathMax(ColumnValues(clean, f.name)),
                    MathMin(ColumnValues(clean, f.name))), EPS_EXP)

\* Index of the feature at which the forEach of check A throws; 0 when it does not.
RECURSIVE FirstConstantFrom(_, _, _)
FirstConstantFrom(featureVars, clean, i) ==
    IF i > Len(featureVars) THEN 0
    ELSE IF IsConstant(clean, featureVars[i]) THEN i
    ELSE FirstConstantFrom(featureVars, clean, i + 1)

FirstConstant(featureVars, clean) == FirstConstantFrom(featureVars, clean, 1)

\* Check B for one pair: both numeric and every row within 1e-9
IsIdentical(clean, var1, var2) ==
    /\ var1.type = "numeric" /\ var2.type = "numeric"
    /\ \A idx \in 1..Len(clean) :
          AbsBelow(Sub(ColumnValues(clean, var1.name)[idx],
                       ColumnValues(clean, var2.name)[idx]), EPS_EXP)

\* The pair <<i, j>> at which the nested loops of check B throw; <<0, 0>> when
\* they do not.
FirstIdenticalPair(featureVars, clean) ==
    LET P == {p \in (1..Len(featureVars)) \X (1..Len(featureVars)) :
                 p[1] < p[2] /\ IsIdentical(clean, featureVars[p[1]], featureVars[p[2]])}
    IN  IF P = {} THEN <<0, 0>>
        ELSE CHOOSE p \in P : \A q \in P : p[1] < q[1] \/ (p[1] = q[1] /\ p[2] <= q[2])

(***************************************************************************)
(* performRegression: design matrix                                        *)
(***************************************************************************)
\* Y: the transformed target of every clean row
TargetVector(clean, targetVar, targetLogTransform, targetLogPlusOne) ==
    [i \in 1..Len(clean) |->
        IF targetLogTransform
        THEN getLogVal(Number(clean[i][targetVar]), targetLogPlusOne)
        ELSE Number(clean[i][targetVar])]

\* uniqueValues for one categorical feature
UniqueValues(clean, name) ==
    SortStrings({String(clean[i][name]) : i \in 1..Len(clean)})

\* CatLevels without dropping the reference level.
CatLevels_KeepAll(clean, name) == UniqueValues(clean, name)

\* catLevels[name] = uniqueValues.slice(1)
CatLevels(clean, name) ==
    LET u == UniqueValues(clean, name)
    IN  IF u = <<>> THEN <<>> ELSE Tail(u)

\* HeadersOf with the two prefixes exchanged.
HeadersOf_PrefixSwapped(f, clean) ==
    IF f.type = "numeric"
    THEN <<(IF f.logTransform THEN (IF f.logPlusOne THEN "ln_" ELSE "ln1p_") ELSE "") \o f.name>>
    ELSE [l \in 1..Len(CatLevels(clean, f.name)) |->
             f.name \o "_" \o CatLevels(clean, f.name)[l]]

\* The headers one feature pushes onto featureNames
HeadersOf(f, clean) ==
    IF f.type = "numeric"
    THEN <<(IF f.logTransform THEN (IF f.logPlusOne THEN "ln1p_" ELSE "ln_") ELSE "") \o f.name>>
    ELSE [l \in 1..Len(CatLevels(clean, f.name)) |->
             f.name \o "_" \o CatLevels(clean, f.name)[l]]

RECURSIVE HeadersFrom(_, _, _)
HeadersFrom(featureVars, clean, i) ==
    IF i > Len(featureVars) THEN <<>>
    ELSE HeadersOf(featureVars[i], clean) \o HeadersFrom(featureVars, clean, i + 1)

\* FeatureNames without the leading "Intercept".
FeatureNames_NoIntercept(featureVars, clean) == HeadersFrom(featureVars, clean, 1)

FeatureNames(featureVars, clean) == <<"Intercept">> \o HeadersFrom(featureVars, clean, 1)

\* The entries one feature pushes onto xRow
CellsOf(row, f, clean) ==
    IF f.type = "numeric"
    THEN <<IF f.logTransform THEN getLogVal(Number(row[f.name]), f.logPlusOne)
           ELSE Number(row[f.name])>>
    ELSE [l \in 1..Len(CatLevels(clean, f.name)) |->
             IF String(row[f.name]) = CatLevels(clean, f.name)[l] THEN One ELSE Zero]

RECURSIVE CellsFrom(_, _, _, _)
CellsFrom(row, featureVars, clean, i) ==
    IF i > Len(featureVars) THEN <<>>
    ELSE CellsOf(row, featureVars[i], clean) \o CellsFrom(row, featureVars, clean, i + 1)

xRow(row, featureVars, clean) == <<One>> \o CellsFrom(row, featureVars, clean, 1)

DesignMatrix(featureVars, clean) ==
    [i \in 1..Len(clean) |-> xRow(clean[i], featureVars, clean)]

\* IsInsufficient with n < k for n <= k.
IsInsufficient_Strict(n, k) == n < k

\* IsInsufficient comparing n with the number of non-intercept columns.
IsInsufficient_NoIntercept(n, k) == n <= k - 1

\* n <= k
IsInsufficient(n, k) == n <= k

\* pred += row[j] * Beta[j] for j = 0 .. row.length - 1, starting from 0
RECURSIVE PredictFrom(_, _, _, _)
PredictFrom(row, B, j, pred) ==
    IF j > Len(row) THEN pred
    ELSE PredictFrom(row, B, j + 1, Add(pred, Mul(row[j], B[j])))

\* categories of one prediction: the string value of every categorical feature
CategoriesOf(row, featureVars) ==
    [i \in {i \in 1..Len(featureVars) : featureVars[i].type = "categorical"} |->
        String(row[featureVars[i].name])]

\* Predictions with the actual values taken in reverse row order.
Predictions_Reversed(X, Yv, B, clean, featureVars) ==
    [i \in 1..Len(X) |->
        LET pred == PredictFrom(X[i], B, 1, Zero)
            act == Yv[Len(X) + 1 - i]
        IN  [actual |-> act, predicted |-> pred, residual |-> Sub(act, pred),
             categories |-> CategoriesOf(clean[i], featureVars)]]

\* predictions = X_raw.map((row, i) => ({actual, predicted, residual, categories}))
Predictions(X, Yv, B, clean, featureVars) ==
    [i \in 1..Len(X) |->
        LET pred == PredictFrom(X[i], B, 1, Zero)
        IN  [actual |-> Yv[i], predicted |-> pred, residual |-> Sub(Yv[i], pred),
             categories |-> CategoriesOf(clean[i], featureVars)]]

\* arr.reduce((a, b) => a + b, 0); a NaN sum stays NaN whatever is added
RECURSIVE SumFrom(_, _, _)
SumFrom(arr, i, acc) ==
    IF i > Len(arr) \/ isNaN(acc) THEN acc ELSE SumFrom(arr, i + 1, Add(acc, arr[i]))

\* mean(arr)
mean(arr) == Div(SumFrom(arr, 1, Zero), Num(Len(arr)))

\* Math.pow(x, 2)
Square(x) == Mul(x, x)

\* sst = sum of (actual - yMean)^2 over the predictions
SST(preds, Yv) ==
    SumFrom([i \in 1..Len(preds) |-> Square(Sub(preds[i].actual, mean(Yv)))], 1, Zero)

\* sse = sum of residual^2 over the predictions
SSE(preds) == SumFrom([i \in 1..Len(preds) |-> Square(preds[i].residual)], 1, Zero)

\* r2 = 1 - (sse / sst)
R2(sse, sst) == Sub(One, Div(sse, sst))

\* adjustedR2 = 1 - ((1 - r2) * (n - 1) / (n - k))
AdjustedR2(r2, n, k) == Sub(One, Div(Mul(Sub(One, r2), Num(n - 1)), Num(n - k)))

\* mse = sse / (n - k)
MSE(sse, n, k) == Div(sse, Num(n - k))

\* coefficients = Beta.map((val, i) => ({name: featureNames[i], value: val, ...}))
Coefficients(Beta, names) ==
    [i \in 1..Len(Beta) |->
        [name |-> IF i <= Len(names) THEN names[i] ELSE "undefined", value |-> Beta[i]]]

(***************************************************************************)
(* Diagnostics: correlation matrix and variance inflation factors          *)
(***************************************************************************)
\* The integer square root of v by bisection of lo..hi.
RECURSIVE IntRootIn(_, _, _)
IntRootIn(v, lo, hi) ==
    IF lo >= hi THEN lo
    ELSE LET mid == (lo + hi + 1) \div 2
         IN  IF mid * mid <= v THEN IntRootIn(v, mid, hi) ELSE IntRootIn(v, lo, mid - 1)

IntRoot(v) == IntRootIn(v, 0, IF v < 46340 THEN v ELSE 46340)

\* Math.sqrt: the exact root where numerator and denominator are squares,
\* otherwise the root cut to one decimal (for values below 2^31 / 100).
MathSqrt(x) ==
    IF isNaN(x) THEN NaN
    ELSE IF x.k = "inf" THEN (IF x.n > 0 THEN PInf ELSE NaN)
    ELSE IF x.n < 0 THEN NaN
    ELSE LET rn == IntRoot(x.n)
             rd == IntRoot(x.d)
         IN  IF rn * rn = x.n /\ rd * rd = x.d THEN Fin(rn, rd)
             ELSE Fin(IntRoot((x.n * 100) \div x.d), 10)

\* means[j]: the sum of column j from 0, divided by n
ColumnMean(X, j) == Div(SumFrom([i \in 1..Len(X) |-> X[i][j]], 1, Zero), Num(Len(X)))

\* sumSq / (n - 1) for column j
ColumnVariance(X, j) ==
    Div(SumFrom([i \in 1..Len(X) |-> Square(Sub(X[i][j], ColumnMean(X, j)))], 1, Zero),
        Num(Len(X) - 1))

\* computeCorrelationMatrix(X)
computeCorrelationMatrix(X) ==
    IF Len(X) = 0 THEN <<>>
    ELSE LET n == Len(X)
             k == Len(X[1])
             means == [j \in 1..k |-> ColumnMean(X, j)]
             stds == [j \in 1..k |-> MathSqrt(ColumnVariance(X, j))]
             z(i, j) == Div(Sub(X[i][j], means[j]), stds[j])
         IN  [r \in 1..k |-> [c \in 1..k |->
                 IF Lt(stds[r], Fin(1, 10^EPS_EXP)) \/ Lt(stds[c], Fin(1, 10^EPS_EXP))
                 THEN NaN
                 ELSE IF r = c THEN One
                 ELSE Div(SumFrom([i \in 1..n |-> Mul(z(i, r), z(i, c))], 1, Zero),
                          Num(n - 1))]]

\* variances[j] > 1e-9
HasVariance(X, j) ==
    LET v == ColumnVariance(X, j) IN Lt(Zero, v) /\ AbsAbove(v, EPS_EXP)

\* calculateVIFs(X)
calculateVIFs(X) ==
    LET k == Len(X[1])
        valid == {j \in 1..k : HasVariance(X, j)}
        validIndices == SelectSeq([j \in 1..k |-> j], LAMBDA j : j \in valid)
        p == Len(validIndices)
        X_valid == [r \in 1..Len(X) |-> [i \in 1..p |-> X[r][validIndices[i]]]]
        R_small == computeCorrelationMatrix(X_valid)
        R_inv == inverse(R_small)
        at(j) == Cardinality({v \in valid : v <= j})
    IN  IF k <= 1 THEN [j \in 1..k |-> One]
        ELSE IF p < 2 THEN [j \in 1..k |-> One]
        ELSE IF ~R_inv.ok THEN [j \in 1..k |-> PInf]
        ELSE [j \in 1..k |->
                 IF j \in valid /\ ~isNaN(R_inv.m[at(j)][at(j)])
                 THEN R_inv.m[at(j)][at(j)]
                 ELSE PInf]

(***************************************************************************)
(* performRegression: robustness check (bootstrap)                         *)
(***************************************************************************)
\* BootstrapIterations with the threshold itself counted as large.
BootstrapIterations_AtThreshold(n) == IF n >= 2000 THEN 20 ELSE 50

\* BOOTSTRAP_ITERATIONS = n > 2000 ? 20 : 50
BootstrapIterations(n) == IF n > 2000 THEN 20 ELSE 50

\* The generator state after c calls of Math.random.
Advance(g, c, modulus) == [g EXCEPT !.s = (g.s + c * g.inc) % modulus]

\* Math.floor(Math.random() * n), Math.random() being g.s / modulus
RandomIndex(g, n, modulus) == (g.s * n) \div modulus

\* indices after the n pushes of one iteration, drawn from generator state g
ResampleIndices(g, n, modulus) ==
    [i \in 1..n |-> RandomIndex(Advance(g, i - 1, modulus), n, modulus)]

\* indices.map(idx => rows[idx]); indices count from 0
Sample(rows, idxs) == [i \in 1..Len(idxs) |-> rows[idxs[i] + 1]]

\* PushEstimates entering 0 for every coefficient when the refit failed.
PushEstimates_ZeroOnFailure(betas, b_sample) ==
    [j \in 1..Len(betas) |-> Append(betas[j], IF b_sample.ok THEN b_sample.beta[j] ELSE Zero)]

\* bootstrapBetas after one iteration with the refit b_sample
PushEstimates(betas, b_sample) ==
    IF b_sample.ok
    THEN [j \in 1..Len(betas) |-> Append(betas[j], b_sample.beta[j])]
    ELSE betas

\* values in ascending order, equal values in their order of arrival: entry i
\* goes behind the entries that are smaller and the earlier ones that are
\* not greater (a - b > 0 is false for them).
SortNumbers(values) ==
    LET len == Len(values)
        placed == {<<i, 1 + Cardinality({j \in 1..len :
                              \/ Lt(values[j], values[i])
                              \/ ~Lt(values[i], values[j]) /\ j < i})>> : i \in 1..len}
    IN  [r \in 1..len |-> values[(CHOOSE p \in placed : p[2] = r)[1]]]

\* The arrangements of values
Arrangements(values) ==
    {[i \in 1..Len(values) |-> values[p[i]]] :
        p \in {q \in [1..Len(values) -> 1..Len(values)] :
                  \A i, j \in 1..Len(values) : i # j => q[i] # q[j]}}

\* What values.sort((a, b) => a - b) can leave in the array: the ascending
\* order; with NaN among different values the comparator is inconsistent and
\* the order is implementation-defined.
SortOutcomes(values) ==
    IF \A i \in 1..Len(values) : ~isNaN(values[i]) THEN {SortNumbers(values)}
    ELSE IF \A i \in 1..Len(values) : isNaN(values[i]) THEN {values}
    ELSE Arrangements(values)

\* v || fallback on numbers: 0 and NaN are falsy
OrElse(v, fallback) == IF isNaN(v) \/ v = Zero THEN fallback ELSE v

\* RobustnessOf without the placeholder of the empty case.
RobustnessOf_NoPlaceholder(c, values) ==
    [name |-> c.name, original |-> c.value,
     bootstrapMean |-> mean(values), bootstrapMedian |-> NaN,
     bootstrapMin |-> NaN, bootstrapMax |-> NaN,
     bootstrapLowCI |-> NaN, bootstrapHighCI |-> NaN]

\* The RobustnessMetrics of coefficient c from its sorted estimates
RobustnessOf(c, values) ==
    IF Len(values) = 0
    THEN [name |-> c.name, original |-> c.value,
          bootstrapMean |-> Zero, bootstrapMedian |-> Zero,
          bootstrapMin |-> Zero, bootstrapMax |-> Zero,
          bootstrapLowCI |-> Zero, bootstrapHighCI |-> Zero]
    ELSE LET len == Len(values)
             bMin == values[1]
             bMax == values[len]
         IN  [name |-> c.name, original |-> c.value,
              bootstrapMean |-> mean(values),
              bootstrapMedian |-> values[(len \div 2) + 1],
              bootstrapMin |-> bMin, bootstrapMax |-> bMax,
              bootstrapLowCI |-> OrElse(values[((len * 25) \div 1000) + 1], bMin),
              bootstrapHighCI |-> OrElse(values[((len * 975) \div 1000) + 1], bMax)]

\* coefficients.map(...).filter(r => r.name !== 'Intercept')
RobustnessList(coefficients, sortedBetas) ==
    SelectSeq([i \in 1..Len(coefficients) |-> RobustnessOf(coefficients[i], sortedBetas[i])],
              LAMBDA r : r.name # "Intercept")

(***************************************************************************)
(* Arrays as objects: what transpose, multiply, inverse and solveOLS       *)
(* create and what they write to                                           *)
(***************************************************************************)
\* An array of numbers and an array of arrays (the addresses of its rows).
NumArray(values) == [nums |-> values, refs |-> <<>>]
RefArray(addresses) == [nums |-> <<>>, refs |-> addresses]

\* The contents of the matrix at address m
MatrixAt(h, m) == [i \in 1..Len(h[m].refs) |-> h[h[m].refs[i]].nums]

\* A new matrix with contents M: one new array per row, then the new outer
\* array.
AllocMatrix(h, M) ==
    [heap |-> h \o [i \in 1..Len(M) |-> NumArray(M[i])]
                \o <<RefArray([i \in 1..Len(M) |-> Len(h) + i])>>,
     ref |-> Len(h) + Len(M) + 1]

\* WriteMatrix assigning to the oldest arrays instead of the rows of m.
WriteMatrix_Oldest(h, m, M) ==
    [a \in 1..Len(h) |-> IF a <= Len(M) THEN NumArray(M[a]) ELSE h[a]]

\* Assignments matrix[i][j] = M[i][j] through the matrix at address m
WriteMatrix(h, m, M) ==
    [a \in 1..Len(h) |->
        IF \E i \in 1..Len(h[m].refs) : h[m].refs[i] = a
        THEN NumArray(M[CHOOSE i \in 1..Len(h[m].refs) : h[m].refs[i] = a])
        ELSE h[a]]

\* indices.map(idx => X_raw[idx]): a new outer array of the same row arrays
SampleRows(h, m, idxs) ==
    [heap |-> Append(h, RefArray([i \in 1..Len(idxs) |-> h[m].refs[idxs[i] + 1]])),
     ref |-> Len(h) + 1]

\* indices.map(idx => Y[idx]): a new array of numbers
SampleNumbers(h, y, idxs) ==
    [heap |-> Append(h, NumArray([i \in 1..Len(idxs) |-> h[y].nums[idxs[i] + 1]])),
     ref |-> Len(h) + 1]

\* transpose(m): m[0].map((_, i) => m.map(row => row[i]))
transposeObj(h, m) == AllocMatrix(h, transpose(MatrixAt(h, m)))

\* multiply(m1, m2): result[i] = [] and result[i][j] = sum
multiplyObj(h, m1, m2) == AllocMatrix(h, multiply(MatrixAt(h, m1), MatrixAt(h, m2)))

\* inverse(m): identity and the copy of m are new; the loop writes to them
\* only.  After a throw they hold what the passes before it left.
inverseObj(h, m) ==
    LET M == MatrixAt(h, m)
        I == [i \in 1..Len(M) |-> [j \in 1..Len(M[i]) |-> IF i = j THEN One ELSE Zero]]
        identity == AllocMatrix(h, I)
        matrix == AllocMatrix(identity.heap, M)
        st == InverseFrom([ok |-> TRUE, matrix |-> M, identity |-> I], 1)
    IN  [heap |-> WriteMatrix(WriteMatrix(matrix.heap, matrix.ref, st.matrix),
                              identity.ref, st.identity),
         ref |-> identity.ref,
         ok |-> st.ok]

\* solveOLS(X, Y) on the arrays at addresses X and Y
solveOLSObj(h, X, Yv) ==
    LET Y_mat == AllocMatrix(h, [i \in 1..Len(h[Yv].nums) |-> <<h[Yv].nums[i]>>])
        X_T == transposeObj(Y_mat.heap, X)
        XTX == multiplyObj(X_T.heap, X_T.ref, X)
        XTX_inv == inverseObj(XTX.heap, XTX.ref)
        XTY == multiplyObj(XTX_inv.heap, X_T.ref, Y_mat.ref)
        B == multiplyObj(XTY.heap, XTX_inv.ref, XTY.ref)
    IN  IF XTX_inv.ok
        THEN [heap |-> B.heap, ok |-> TRUE,
              beta |-> [r \in 1..Len(MatrixAt(B.heap, B.ref)) |-> MatrixAt(B.heap, B.ref)[r][1]]]
        ELSE [heap |-> XTX_inv.heap, ok |-> FALSE, beta |-> <<>>]

(***************************************************************************)
(* Inputs of the model                                                     *)
(***************************************************************************)
\* The longest dataset handed to performRegression.
MaxRows == 3

Row(y, a, b, g) == [y |-> y, a |-> a, b |-> b, g |-> g]

\* Rows of a sheet with the columns y, a, b and g.  Besides plain numeric
\* rows they hold zeros and negatives (log domain), missing, empty, textual
\* and infinite targets, missing and textual feature cells, and category
\* cells that are numbers.
RowPool ==
    { Row(NumCell(Num(1)), NumCell(Num(1)), NumCell(Num(1)), StrCell("A")),
      Row(NumCell(Num(2)), NumCell(Num(2)), NumCell(Num(2)), StrCell("B")),
      Row(NumCell(Num(0)), NumCell(Num(2)), NumCell(Num(1)), StrCell("C")),
      Row(NumCell(Num(-1)), NumCell(Num(0)), NumCell(Num(0)), StrCell("b")),
      Row(Null, NumCell(Num(-1)), NumCell(Num(1)), NumCell(Num(2))),
      Row(StrCell(""), StrCell("abc"), NumCell(Num(1)), StrCell("A")),
      Row(StrCell("abc"), NumCell(Num(2)), NumCell(Num(2)), StrCell("B")),
      Row(NumCell(PInf), NumCell(PInf), NumCell(Num(1)), StrCell("C")),
      Row(StrCell("2"), Null, NumCell(Num(2)), Undefined) }

Numeric(name, logTransform, logPlusOne) ==
    [name |-> name, type |-> "numeric", role |-> "feature",
     logTransform |-> logTransform, logPlusOne |-> logPlusOne]

Categorical(name) ==
    [name |-> name, type |-> "categorical", role |-> "feature",
     logTransform |-> FALSE, logPlusOne |-> FALSE]

FeatureLists ==
    { <<>>,
      <<Numeric("a", FALSE, FALSE)>>,
      <<Numeric("a", TRUE, FALSE)>>,
      <<Numeric("a", TRUE, TRUE)>>,
      <<Categorical("g")>>,
      <<Numeric("a", FALSE, FALSE), Numeric("b", FALSE, TRUE)>>,
      <<Categorical("g"), Numeric("a", FALSE, FALSE)>> }

\* Configurations: every feature list with an untransformed target, and the
\* target transforms with a plain and with a log-transformed numeric feature.
Configs ==
    {[features |-> F, tl |-> FALSE, tp |-> FALSE] : F \in FeatureLists}
    \cup {[features |-> <<Numeric("a", FALSE, FALSE)>>, tl |-> t[1], tp |-> t[2]] :
             t \in {<<TRUE, FALSE>>, <<TRUE, TRUE>>, <<FALSE, TRUE>>}}
    \cup {[features |-> <<Numeric("a", TRUE, FALSE)>>, tl |-> TRUE, tp |-> FALSE]}

Datasets == UNION {[1..n -> RowPool] : n \in 0..MaxRows}

(***************************************************************************)
(* State                                                                   *)
(***************************************************************************)
VARIABLES
    variant,             \* "types" (src/types.ts) or "part_001" (src/unnamed/part_001)
    data, targetVar, featureVars, targetLogTransform, targetLogPlusOne,
    pc,                  \* position inside performRegression
    cleanData, Y, featureNames, X_raw, Beta,
    error, errorVars,    \* the thrown Error and the variable names in its message
    result,              \* the returned RegressionResult
    checks,              \* history: the failure checks evaluated so far, in order
    solverCalls,         \* history: <<n, k>> of every main call of solveOLS
    \* 5. Robustness check (bootstrap)
    rng,                 \* hidden state of Math.random
    BOOTSTRAP_ITERATIONS,
    iter,                \* the loop variable of the bootstrap loop
    indices,             \* the row indices (from 0) drawn by the latest iteration
    bootstrapBetas,      \* per coefficient, the estimates of the successful refits
    robustness,          \* the robustness field of the returned result
    bootFits,            \* history: TRUE / FALSE for every bootstrap fit that gave / did not give estimates
    returns,             \* history: what every finished call of performRegression returned
    \* inverse(m), one pass of its outer loop at a time
    inv_m, inv_matrix, inv_identity, inv_i, inv_pc,
    inv_log,             \* history: the pivot decision of every pass
    \* calculateVIFs(X)
    vif_X, vif_pc, vif_result,
    \* the arrays of the bootstrap loop as objects
    heap,                \* the arrays in order of creation; an address is a position in heap
    ref_X, ref_Y,        \* the addresses of X_raw and Y
    ref_X_sample, ref_Y_sample,
    heap_pc,
    \* VariableSelector (src/components/VariableSelector.tsx)
    vs_localHeaders, vs_target, vs_targetLog, vs_targetLogPlusOne,
    vs_features, vs_catVars, vs_logVars, vs_logPlusOneVars,
    vs_handed,           \* what the latest step handed to onConfigComplete, if anything
    \* the estimates of one coefficient as IEEE 754 doubles
    dbl_values,          \* bootstrapBetas[i]
    dbl_entry,           \* the robustness entry built from it, once built
    \* App (src/App.tsx)
    currentState, app_data, app_headers, regressionResult, app_error, history,
    app_targetVar,
    app_pc               \* "idle", or "calling" inside handleConfigComplete

inputs == <<variant, data, targetVar, featureVars, targetLogTransform, targetLogPlusOne>>
design == <<Y, featureNames, X_raw>>
boot == <<rng, BOOTSTRAP_ITERATIONS, iter, indices, bootstrapBetas, robustness, bootFits, returns>>
kernel == <<inv_m, inv_matrix, inv_identity, inv_i, inv_pc, inv_log>>
vifs == <<vif_X, vif_pc, vif_result>>
\* What the steps of the main model leave alone.
objects == <<heap, ref_X, ref_Y, ref_X_sample, ref_Y_sample, heap_pc>>
selector == <<vs_localHeaders, vs_target, vs_targetLog, vs_targetLogPlusOne,
              vs_features, vs_catVars, vs_logVars, vs_logPlusOneVars, vs_handed>>
doubles == <<dbl_values, dbl_entry>>
app == <<currentState, app_data, app_headers, regressionResult, app_error, history, app_targetVar, app_pc>>
views == <<objects, selector, doubles, app>>
aside == <<boot, kernel, vifs, views>>
vars == <<inputs, pc, cleanData, design, Beta, error, errorVars, result, checks, solverCalls,
          aside>>

NoResult ==
    [coefficients |-> <<>>, r2 |-> Zero, adjustedR2 |-> Zero, mse |-> Zero,
     observations |-> 0, predictions |-> <<>>]

\* The generator of Math.random: the next value is s / RngModulus, after
\* which s advances by inc.
RngModulus == 7
MaxInc == 2
Seeds == [s : 0..(RngModulus - 1), inc : 0..MaxInc]

\* The locals of a call of performRegression before its first statement.
CallStart ==
    /\ pc = "start"
    /\ cleanData = <<>>
    /\ Y = <<>>
    /\ featureNames = <<>>
    /\ X_raw = <<>>
    /\ Beta = <<>>
    /\ error = "none"
    /\ errorVars = <<>>
    /\ result = NoResult
    /\ checks = <<>>
    /\ solverCalls = <<>>
    /\ BOOTSTRAP_ITERATIONS = 0
    /\ iter = 0
    /\ indices = <<>>
    /\ bootstrapBetas = <<>>
    /\ robustness = <<>>
    /\ bootFits = <<>>

\* No call of inverse on its own.
KernelIdle ==
    /\ inv_m = <<>>
    /\ inv_matrix = <<>>
    /\ inv_identity = <<>>
    /\ inv_i = 0
    /\ inv_pc = "idle"
    /\ inv_log = <<>>

\* No call of calculateVIFs on its own.
VifIdle ==
    /\ vif_X = <<>>
    /\ vif_pc = "idle"
    /\ vif_result = <<>>

\* No array is looked at as an object.
ObjectsIdle ==
    /\ heap = <<>>
    /\ ref_X = 0
    /\ ref_Y = 0
    /\ ref_X_sample = 0
    /\ ref_Y_sample = 0
    /\ heap_pc = "idle"

\* No VariableSelector is mounted.
SelectorIdle ==
    /\ vs_localHeaders = <<>>
    /\ vs_target = ""
    /\ vs_targetLog = FALSE
    /\ vs_targetLogPlusOne = FALSE
    /\ vs_features = {}
    /\ vs_catVars = {}
    /\ vs_logVars = {}
    /\ vs_logPlusOneVars = {}
    /\ vs_handed = <<>>

\* No list of estimates is looked at as doubles.
DoublesIdle ==
    /\ dbl_values = <<>>
    /\ dbl_entry = <<>>

\* No App is mounted.
AppIdle ==
    /\ currentState = "UPLOAD"
    /\ app_data = <<>>
    /\ app_headers = {}
    /\ regressionResult = <<>>
    /\ app_error = <<>>
    /\ history = <<>>
    /\ app_targetVar = ""
    /\ app_pc = "idle"

ViewsIdle == ObjectsIdle /\ SelectorIdle /\ DoublesIdle /\ AppIdle

Init ==
    /\ variant \in {"types", "part_001"}
    /\ data \in Datasets
    /\ targetVar = "y"
    /\ \E c \in Configs :
          /\ featureVars = c.features
          /\ targetLogTransform = c.tl
          /\ targetLogPlusOne = c.tp
    /\ CallStart
    /\ rng = [s |-> 0, inc |-> 0]
    /\ returns = <<>>
    /\ KernelIdle
    /\ VifIdle
    /\ ViewsIdle

(***************************************************************************)
(* Steps of performRegression                                              *)
(***************************************************************************)
\* throw new Error(...): nothing is returned.
Throw(kind, names) ==
    /\ error' = kind
    /\ errorVars' = names
    /\ pc' = "failed"

NoThrow(next) ==
    /\ pc' = next
    /\ UNCHANGED <<error, errorVars>>

\* 1. cleanData = data.filter(...); throw when nothing is left.
Preprocess ==
    /\ pc = "start"
    /\ cleanData' = CleanRows(data, targetVar, featureVars,
                              targetLogTransform, targetLogPlusOne)
    /\ checks' = Append(checks, "empty")
    /\ IF IsEmptyDataset(cleanData')
       THEN Throw("EmptyDataset", <<>>)
       ELSE NoThrow(IF variant = "types" THEN "checkA" ELSE "build")
    /\ UNCHANGED <<inputs, design, Beta, result, solverCalls, aside>>

\* Check A: a numeric feature that is constant over the clean rows.
CheckConstant ==
    /\ pc = "checkA"
    /\ checks' = Append(checks, "constant")
    /\ LET i == FirstConstant(featureVars, cleanData)
       IN  IF i # 0
           THEN Throw("ConstantVariable", <<featureVars[i].name>>)
           ELSE NoThrow("checkB")
    /\ UNCHANGED <<inputs, cleanData, design, Beta, result, solverCalls, aside>>

\* Check B: two numeric features with identical values.
CheckIdentical ==
    /\ pc = "checkB"
    /\ checks' = Append(checks, "identical")
    /\ LET p == FirstIdenticalPair(featureVars, cleanData)
       IN  IF p # <<0, 0>>
           THEN Throw("DuplicateVariable", <<featureVars[p[1]].name, featureVars[p[2]].name>>)
           ELSE NoThrow("build")
    /\ UNCHANGED <<inputs, cleanData, design, Beta, result, solverCalls, aside>>

\* 2. Y, featureNames and X_raw, then the n <= k check.
BuildDesign ==
    /\ pc = "build"
    /\ Y' = TargetVector(cleanData, targetVar, targetLogTransform, targetLogPlusOne)
    /\ featureNames' = FeatureNames(featureVars, cleanData)
    /\ X_raw' = DesignMatrix(featureVars, cleanData)
    /\ checks' = Append(checks, "size")
    /\ IF IsInsufficient(Len(Y'), Len(featureNames'))
       THEN Throw("InsufficientSampleSize", <<>>)
       ELSE NoThrow("solve")
    /\ UNCHANGED <<inputs, cleanData, Beta, result, solverCalls, aside>>

\* 3. Beta = solveOLS(X_raw, Y); throw when it is null.
Solve ==
    /\ pc = "solve"
    /\ solverCalls' = Append(solverCalls, <<Len(Y), Len(featureNames)>>)
    /\ checks' = Append(checks, "singular")
    /\ LET b == solveOLS(X_raw, Y)
       IN  IF ~b.ok
           THEN Beta' = <<>> /\ Throw("SingularMatrix", <<>>)
           ELSE Beta' = b.beta /\ NoThrow("stats")
    /\ UNCHANGED <<inputs, cleanData, design, result, aside>>

\* 4. Statistics of the main model and the returned result.  The second
\* inverse(XTX) is the one of the standard errors.  The remaining fields of
\* the result (rmse, stdError, tStat, confidenceInterval, vif,
\* correlationMatrix, robustness, equation) are computed after this point by
\* code that cannot throw (calculateVIFs and solveOLS catch), so they are not
\* held in the state here.
Statistics ==
    /\ pc = "stats"
    /\ IF ~inverse(multiply(transpose(X_raw), X_raw)).ok
       THEN Throw("StandardErrorSingular", <<>>) /\ UNCHANGED result
       ELSE /\ LET n == Len(Y)
                   k == Len(featureNames)
                   predictions == Predictions(X_raw, Y, Beta, cleanData, featureVars)
                   sse == SSE(predictions)
                   r2 == R2(sse, SST(predictions, Y))
               IN  result' = [coefficients |-> Coefficients(Beta, featureNames),
                              r2 |-> r2,
                              adjustedR2 |-> AdjustedR2(r2, n, k),
                              mse |-> MSE(sse, n, k),
                              observations |-> n,
                              predictions |-> predictions]
            /\ pc' = "done"
            /\ UNCHANGED <<error, errorVars>>
    /\ UNCHANGED <<inputs, cleanData, design, Beta, checks, solverCalls, aside>>

Next ==
    \/ Preprocess
    \/ CheckConstant
    \/ CheckIdentical
    \/ BuildDesign
    \/ Solve
    \/ Statistics

Spec == Init /\ [][Next]_vars

(***************************************************************************)
(* performRegression with its robustness check, on a few datasets          *)
(***************************************************************************)
\* The calls of performRegression the application makes in a row.
MaxCalls == 2

BootRow(y, a, g) ==
    Row(NumCell(Num(y)), NumCell(Num(a)), NumCell(Num(a)), StrCell(g))

\* A row of a sheet whose feature column is itself headed "Intercept".
InterceptRow(y, v) == [y |-> NumCell(Num(y)), Intercept |-> NumCell(Num(v))]

BootData == <<BootRow(1, 1, "A"), BootRow(2, 2, "B"), BootRow(0, 2, "A"), BootRow(3, 0, "B")>>

\* Four rows with no, a numeric, a categorical, and both features; three
\* rows with a constant feature; a feature named like the intercept column.
BootInputs ==
    {[data |-> BootData, features |-> F] :
        F \in { <<>>, <<Numeric("a", FALSE, FALSE)>>, <<Categorical("g")>>,
                <<Numeric("a", FALSE, FALSE), Categorical("g")>> }}
    \cup {[data |-> <<BootRow(2, 2, "A"), BootRow(0, 2, "B"), BootRow(2, 2, "A")>>,
           features |-> <<Numeric("a", FALSE, FALSE)>>]}
    \cup {[data |-> <<InterceptRow(1, 1), InterceptRow(2, 2), InterceptRow(0, 2)>>,
           features |-> <<Numeric("Intercept", FALSE, FALSE)>>]}

InitBoot ==
    /\ variant \in {"types", "part_001"}
    /\ \E c \in BootInputs : data = c.data /\ featureVars = c.features
    /\ targetVar = "y"
    /\ targetLogTransform = FALSE
    /\ targetLogPlusOne = FALSE
    /\ CallStart
    /\ rng \in Seeds
    /\ returns = <<>>
    /\ KernelIdle
    /\ VifIdle
    /\ ViewsIdle

\* BOOTSTRAP_ITERATIONS and the k empty lists of bootstrapBetas.
BootstrapStart ==
    /\ pc = "done"
    /\ pc' = "bootstrap"
    /\ BOOTSTRAP_ITERATIONS' = BootstrapIterations(Len(Y))
    /\ bootstrapBetas' = [j \in 1..Len(featureNames) |-> <<>>]
    /\ iter' = 0
    /\ UNCHANGED <<inputs, cleanData, design, Beta, error, errorVars, result, checks,
                   solverCalls, rng, indices, robustness, bootFits, returns, kernel, vifs, views>>

\* The index draws of one iteration: n calls of Math.random.
Resample ==
    /\ pc = "bootstrap"
    /\ iter < BOOTSTRAP_ITERATIONS
    /\ indices' = ResampleIndices(rng, Len(Y), RngModulus)
    /\ rng' = Advance(rng, Len(Y), RngModulus)
    /\ iter' = iter + 1
    /\ UNCHANGED <<inputs, pc, cleanData, design, Beta, error, errorVars, result, checks,
                   solverCalls, BOOTSTRAP_ITERATIONS, robustness, returns, kernel, vifs>>

\* One iteration: the draws, the refit on the drawn rows, and the push of
\* its estimates when it returned any.
BootstrapIteration ==
    /\ Resample
    /\ LET idxs == ResampleIndices(rng, Len(Y), RngModulus)
           b_sample == solveOLS(Sample(X_raw, idxs), Sample(Y, idxs))
       IN  /\ bootstrapBetas' = PushEstimates(bootstrapBetas, b_sample)
           /\ bootFits' = Append(bootFits, b_sample.ok)
    /\ UNCHANGED views

\* After the loop: sort the estimates of every coefficient in place, build
\* the robustness summaries, and return the result.
Robustness ==
    /\ pc = "bootstrap"
    /\ iter = BOOTSTRAP_ITERATIONS
    /\ bootstrapBetas' \in
          {sorted \in [1..Len(bootstrapBetas) ->
                          UNION {SortOutcomes(bootstrapBetas[j]) : j \in 1..Len(bootstrapBetas)}] :
              \A j \in 1..Len(bootstrapBetas) : sorted[j] \in SortOutcomes(bootstrapBetas[j])}
    /\ robustness' = RobustnessList(result.coefficients, bootstrapBetas')
    /\ returns' = Append(returns, [result |-> result, robustness |-> robustness'])
    /\ pc' = "returned"
    /\ UNCHANGED <<inputs, cleanData, design, Beta, error, errorVars, result, checks,
                   solverCalls, rng, BOOTSTRAP_ITERATIONS, iter, indices, bootFits,
                   kernel, vifs, views>>

\* The application calls performRegression again with the same rows and
\* configuration; the generator of Math.random goes on from where it was.
CallAgain ==
    /\ pc = "returned"
    /\ Len(returns) < MaxCalls
    /\ pc' = "start"
    /\ cleanData' = <<>>
    /\ Y' = <<>>
    /\ featureNames' = <<>>
    /\ X_raw' = <<>>
    /\ Beta' = <<>>
    /\ result' = NoResult
    /\ checks' = <<>>
    /\ solverCalls' = <<>>
    /\ BOOTSTRAP_ITERATIONS' = 0
    /\ iter' = 0
    /\ indices' = <<>>
    /\ bootstrapBetas' = <<>>
    /\ robustness' = <<>>
    /\ bootFits' = <<>>
    /\ UNCHANGED <<inputs, error, errorVars, rng, returns, kernel, vifs, views>>

NextBoot ==
    \/ Preprocess
    \/ CheckConstant
    \/ CheckIdentical
    \/ BuildDesign
    \/ Solve
    \/ Statistics
    \/ BootstrapStart
    \/ BootstrapIteration
    \/ Robustness
    \/ CallAgain

SpecBoot == InitBoot /\ [][NextBoot]_vars

(***************************************************************************)
(* inverse(m), one pass of its outer loop at a time                        *)
(***************************************************************************)
\* The largest entry of the matrices handed to inverse.
MaxEntry == 1
Dimensions == {1, 2, 3}

\* Square matrices of small integers, and some with NaN and Infinity.
InverseInputs ==
    UNION {[1..n -> [1..n -> {Num(v) : v \in 0..MaxEntry}]] : n \in Dimensions}
    \cup { <<<<NaN>>>>,
           <<<<Zero, One>>, <<PInf, One>>>>,
           <<<<Zero, NaN>>, <<NaN, One>>>>,
           <<<<Num(2), One>>, <<One, Fin(1, 2)>>>> }

\* The start of inverse: the identity and the copy of m.
InitInverse ==
    /\ variant = "types"
    /\ data = <<>>
    /\ targetVar = "y"
    /\ featureVars = <<>>
    /\ targetLogTransform = FALSE
    /\ targetLogPlusOne = FALSE
    /\ CallStart
    /\ rng = [s |-> 0, inc |-> 0]
    /\ returns = <<>>
    /\ inv_m \in InverseInputs
    /\ inv_matrix = inv_m
    /\ inv_identity = [i \in 1..Len(inv_m) |->
                          [j \in 1..Len(inv_m[i]) |-> IF i = j THEN One ELSE Zero]]
    /\ inv_i = 1
    /\ inv_pc = "pivot"
    /\ inv_log = <<>>
    /\ VifIdle
    /\ ViewsIdle

\* What a pass leaves alone.
InverseFrame == UNCHANGED <<inputs, pc, cleanData, design, Beta, error, errorVars, result,
                            checks, solverCalls, boot, vifs, views, inv_m>>

\* The record of one pivot decision.
PivotRecord(after, afterIdentity, thrown) ==
    [i |-> inv_i, before |-> inv_matrix, beforeIdentity |-> inv_identity,
     after |-> after, afterIdentity |-> afterIdentity, thrown |-> thrown]

\* The pivot of row i is not below the tolerance: nothing is swapped.
InversePivot ==
    /\ inv_pc = "pivot"
    /\ inv_i <= Len(inv_matrix)
    /\ ~AbsBelow(inv_matrix[inv_i][inv_i], PIVOT_EPS_EXP)
    /\ inv_pc' = "scale"
    /\ inv_log' = Append(inv_log, PivotRecord(inv_matrix, inv_identity, FALSE))
    /\ UNCHANGED <<inv_matrix, inv_identity, inv_i>>
    /\ InverseFrame

\* The pivot is below the tolerance and a lower row has a usable entry: the
\* first such row is swapped with row i in matrix and in identity.
InverseSwap ==
    /\ inv_pc = "pivot"
    /\ inv_i <= Len(inv_matrix)
    /\ AbsBelow(inv_matrix[inv_i][inv_i], PIVOT_EPS_EXP)
    /\ FirstSwapRow(inv_matrix, inv_i, inv_i + 1) # 0
    /\ LET k == FirstSwapRow(inv_matrix, inv_i, inv_i + 1)
       IN  /\ inv_matrix' = SwapRows(inv_matrix, inv_i, k)
           /\ inv_identity' = SwapRows(inv_identity, inv_i, k)
    /\ inv_pc' = "scale"
    /\ inv_log' = Append(inv_log, PivotRecord(inv_matrix', inv_identity', FALSE))
    /\ UNCHANGED inv_i
    /\ InverseFrame

\* The pivot is below the tolerance and no lower row can replace it.
InverseThrow ==
    /\ inv_pc = "pivot"
    /\ inv_i <= Len(inv_matrix)
    /\ AbsBelow(inv_matrix[inv_i][inv_i], PIVOT_EPS_EXP)
    /\ FirstSwapRow(inv_matrix, inv_i, inv_i + 1) = 0
    /\ inv_pc' = "thrown"
    /\ inv_log' = Append(inv_log, PivotRecord(inv_matrix, inv_identity, TRUE))
    /\ UNCHANGED <<inv_matrix, inv_identity, inv_i>>
    /\ InverseFrame

\* Scale row i by the pivot and eliminate column i from the other rows.
InverseEliminate ==
    /\ inv_pc = "scale"
    /\ inv_matrix' = Eliminate(inv_matrix, inv_matrix, inv_i, inv_matrix[inv_i][inv_i])
    /\ inv_identity' = Eliminate(inv_identity, inv_matrix, inv_i, inv_matrix[inv_i][inv_i])
    /\ inv_i' = inv_i + 1
    /\ inv_pc' = "pivot"
    /\ UNCHANGED inv_log
    /\ InverseFrame

\* return identity
InverseReturn ==
    /\ inv_pc = "pivot"
    /\ inv_i > Len(inv_matrix)
    /\ inv_pc' = "returned"
    /\ UNCHANGED <<inv_matrix, inv_identity, inv_i, inv_log>>
    /\ InverseFrame

NextInverse ==
    \/ InversePivot
    \/ InverseSwap
    \/ InverseThrow
    \/ InverseEliminate
    \/ InverseReturn

SpecInverse == InitInverse /\ [][NextInverse]_vars

(***************************************************************************)
(* calculateVIFs(X) on its own                                             *)
(***************************************************************************)
\* The largest number of columns of X.
MaxCols == 2

\* Columns of three observations: varying ones with variance 1 or 4, two
\* constant ones, and one whose variance, 6.25e-10, is above 0 and below 1e-9.
ColumnPool ==
    { <<Num(0), Num(1), Num(2)>>, <<Num(0), Num(2), Num(1)>>, <<Num(1), Num(0), Num(2)>>,
      <<Num(1), Num(2), Num(0)>>, <<Num(2), Num(0), Num(1)>>, <<Num(2), Num(1), Num(0)>>,
      <<Num(0), Num(2), Num(4)>>,
      <<Num(1), Num(1), Num(1)>>, <<Num(0), Num(0), Num(0)>>,
      <<Num(0), Fin(1, 40000), Fin(2, 40000)>> }

VifInputs ==
    UNION {{[i \in 1..3 |-> [j \in 1..k |-> cols[j][i]]] : cols \in [1..k -> ColumnPool]}
           : k \in 1..MaxCols}

InitVIF ==
    /\ variant = "types"
    /\ data = <<>>
    /\ targetVar = "y"
    /\ featureVars = <<>>
    /\ targetLogTransform = FALSE
    /\ targetLogPlusOne = FALSE
    /\ CallStart
    /\ rng = [s |-> 0, inc |-> 0]
    /\ returns = <<>>
    /\ KernelIdle
    /\ vif_X \in VifInputs
    /\ vif_pc = "call"
    /\ vif_result = <<>>
    /\ ViewsIdle

\* const vifs = calculateVIFs(X_no_intercept)
CalculateVIFs ==
    /\ vif_pc = "call"
    /\ vif_result' = calculateVIFs(vif_X)
    /\ vif_pc' = "returned"
    /\ UNCHANGED <<inputs, pc, cleanData, design, Beta, error, errorVars, result,
                   checks, solverCalls, boot, kernel, views, vif_X>>

NextVIF == CalculateVIFs

SpecVIF == InitVIF /\ [][NextVIF]_vars

(***************************************************************************)
(* The robustness summaries alone, for up to 50 collected estimates        *)
(***************************************************************************)
\* The largest number of estimates below and above the bulk of a list.
MaxTail == 2

\* Numbers of successful iterations out of 50.
SummaryLengths == {1, 2, 3, 39, 40, 41, 50}

\* The estimates of a slope in order of arrival: pos times 2, then bulk as
\* often as needed to make len, then neg times -1.
Estimates(len, neg, bulk, pos) ==
    [i \in 1..len |-> IF i <= pos THEN Num(2)
                      ELSE IF i <= len - neg THEN bulk
                      ELSE Num(-1)]

\* The end of the bootstrap loop of a fit with an intercept and one slope,
\* len of the 50 refits having succeeded.
InitSummary ==
    /\ variant \in {"types", "part_001"}
    /\ data = <<>>
    /\ targetVar = "y"
    /\ featureVars = <<>>
    /\ targetLogTransform = FALSE
    /\ targetLogPlusOne = FALSE
    /\ pc = "bootstrap"
    /\ cleanData = <<>>
    /\ Y = <<>>
    /\ featureNames = <<"Intercept", "a">>
    /\ X_raw = <<>>
    /\ Beta = <<One, Zero>>
    /\ error = "none"
    /\ errorVars = <<>>
    /\ result = [NoResult EXCEPT !.coefficients = Coefficients(Beta, featureNames)]
    /\ checks = <<>>
    /\ solverCalls = <<>>
    /\ rng = [s |-> 0, inc |-> 0]
    /\ BOOTSTRAP_ITERATIONS = BootstrapIterations(0)
    /\ iter = BOOTSTRAP_ITERATIONS
    /\ indices = <<>>
    /\ \E len \in SummaryLengths, neg \in 0..MaxTail, pos \in 0..MaxTail, bulk \in {Zero, One} :
          /\ neg + pos <= len
          /\ bootstrapBetas = <<[i \in 1..len |-> One], Estimates(len, neg, bulk, pos)>>
          /\ bootFits = [i \in 1..BOOTSTRAP_ITERATIONS |-> i <= len]
    /\ robustness = <<>>
    /\ returns = <<>>
    /\ KernelIdle
    /\ VifIdle
    /\ ViewsIdle

NextSummary == Robustness

SpecSummary == InitSummary /\ [][NextSummary]_vars

(***************************************************************************)
(* The robustness summary on IEEE 754 doubles                              *)
(*                                                                         *)
(* mean(values) adds and divides with rounding, so the summary of one      *)
(* coefficient is modelled once more on doubles: a non-negative double is  *)
(* zero, Infinity, or m * 2^e with m an integer of MantissaBits bits       *)
(* (most significant first, leading bit 1).  Addition and division round   *)
(* to nearest, ties to even, and overflow to Infinity; the lists hold no   *)
(* negative, subnormal or NaN value.                                       *)
(***************************************************************************)
MantissaBits == 53
\* the largest e of a finite double: (2^53 - 1) * 2^971 is Number.MAX_VALUE
MaxExponent == 971
\* quotient bits kept below the mantissa of the dividend in a division
DivisionBits == 60

DZero == [k |-> "zero"]
DInfinity == [k |-> "inf"]
\* m * 2^e with m of MantissaBits bits, or Infinity beyond the range
Finite(m, e) == IF e > MaxExponent THEN DInfinity ELSE [k |-> "pos", m |-> m, e |-> e]

Zeros(n) == [i \in 1..n |-> 0]
AnyOne(bits) == \E i \in 1..Len(bits) : bits[i] = 1

RECURSIVE StripZeros(_)
StripZeros(bits) ==
    IF bits = <<>> \/ bits[1] = 1 THEN bits ELSE StripZeros(Tail(bits))

\* a + b + carry of two bit strings of one length, the low half before the
\* high half; the carry out of the first place is returned beside the bits.
RECURSIVE AddBitsWith(_, _, _)
AddBitsWith(a, b, carry) ==
    IF Len(a) = 0 \/ carry > 1 THEN [bits |-> <<>>, carry |-> carry]
    ELSE IF Len(a) = 1
    THEN [bits |-> <<(a[1] + b[1] + carry) % 2>>, carry |-> (a[1] + b[1] + carry) \div 2]
    ELSE LET h == Len(a) \div 2
             low == AddBitsWith(SubSeq(a, h + 1, Len(a)), SubSeq(b, h + 1, Len(b)), carry)
             high == AddBitsWith(SubSeq(a, 1, h), SubSeq(b, 1, h), low.carry)
         IN  [bits |-> high.bits \o low.bits, carry |-> high.carry]

\* a + b, one bit longer than a and b
AddBits(a, b) ==
    LET sum == AddBitsWith(a, b, 0)
    IN  <<sum.carry>> \o sum.bits

\* Long division of rem * 2^Len(bits) + bits by n, rem < n: the quotient bits
\* and the remainder, the high half before the low half
RECURSIVE DivBitsWith(_, _, _)
DivBitsWith(bits, n, rem) ==
    IF Len(bits) = 0 \/ rem >= n THEN [q |-> <<>>, rem |-> rem]
    ELSE IF Len(bits) = 1
    THEN [q |-> <<(2 * rem + bits[1]) \div n>>, rem |-> (2 * rem + bits[1]) % n]
    ELSE LET h == Len(bits) \div 2
             high == DivBitsWith(SubSeq(bits, 1, h), n, rem)
             low == DivBitsWith(SubSeq(bits, h + 1, Len(bits)), n, high.rem)
         IN  [q |-> high.q \o low.q, rem |-> low.rem]

\* The double nearest to bits * 2^e (plus a fraction of its last place when
\* sticky): ties go to the even mantissa.
RoundDouble(bits, e, sticky) ==
    LET t == StripZeros(bits)
        n == Len(t)
    IN  IF n = 0 THEN DZero
        ELSE IF n <= MantissaBits THEN Finite(t \o Zeros(MantissaBits - n), e - (MantissaBits - n))
        ELSE LET kept == SubSeq(t, 1, MantissaBits)
                 below == sticky \/ AnyOne(SubSeq(t, MantissaBits + 2, n))
                 up == t[MantissaBits + 1] = 1 /\ (below \/ kept[MantissaBits] = 1)
                 e2 == e + (n - MantissaBits)
                 inc == AddBits(kept, Zeros(MantissaBits - 1) \o <<1>>)
             IN  IF ~up THEN Finite(kept, e2)
                 ELSE IF inc[1] = 1 THEN Finite(SubSeq(inc, 1, MantissaBits), e2 + 1)
                 ELSE Finite(Tail(inc), e2)

\* a + b in doubles.  A term more than MantissaBits + 2 places below the
\* other is under half a unit of its last place and leaves it as it is.
DAdd(a, b) ==
    IF a.k = "inf" \/ b.k = "inf" THEN DInfinity
    ELSE IF a.k = "zero" THEN b
    ELSE IF b.k = "zero" THEN a
    ELSE IF a.e - b.e > MantissaBits + 2 THEN a
    ELSE IF b.e - a.e > MantissaBits + 2 THEN b
    ELSE LET e == IF a.e < b.e THEN a.e ELSE b.e
             x == a.m \o Zeros(a.e - e)
             y == b.m \o Zeros(b.e - e)
             len == IF Len(x) > Len(y) THEN Len(x) ELSE Len(y)
         IN  RoundDouble(AddBits(Zeros(len - Len(x)) \o x, Zeros(len - Len(y)) \o y), e, FALSE)

\* a / n in doubles, n = arr.length
DDiv(a, n) ==
    IF a.k # "pos" THEN a
    ELSE LET d == DivBitsWith(a.m \o Zeros(DivisionBits), n, 0)
         IN  RoundDouble(d.q, a.e - DivisionBits, d.rem # 0)

BitsLt(a, b) ==
    \E i \in 1..Len(a) : a[i] < b[i] /\ \A j \in 1..(i - 1) : a[j] = b[j]

\* a < b
DLt(a, b) ==
    IF a.k = "inf" \/ b.k = "zero" THEN FALSE
    ELSE IF a.k = "zero" \/ b.k = "inf" THEN TRUE
    ELSE a.e < b.e \/ (a.e = b.e /\ BitsLt(a.m, b.m))

\* a <= b
DLe(a, b) == ~DLt(b, a)

\* arr.reduce((a, b) => a + b, 0); an Infinity sum stays Infinity whatever
\* is added
RECURSIVE DSumFrom(_, _, _)
DSumFrom(arr, i, acc) ==
    IF i > Len(arr) \/ acc.k = "inf" THEN acc ELSE DSumFrom(arr, i + 1, DAdd(acc, arr[i]))

\* mean(arr)
DMean(arr) == DDiv(DSumFrom(arr, 1, DZero), Len(arr))

\* values.sort((a, b) => a - b): ascending, equal values in their order of
\* arrival
DSort(values) ==
    LET len == Len(values)
        placed == {<<i, 1 + Cardinality({j \in 1..len :
                              \/ DLt(values[j], values[i])
                              \/ ~DLt(values[i], values[j]) /\ j < i})>> : i \in 1..len}
    IN  [r \in 1..len |-> values[(CHOOSE p \in placed : p[2] = r)[1]]]

\* v || fallback: 0 is falsy
DOrElse(v, fallback) == IF v = DZero THEN fallback ELSE v

\* The figures of the robustness entry of one coefficient from its sorted
\* estimates, at least one
DRobustnessOf(values) ==
    LET len == Len(values)
        bMin == values[1]
        bMax == values[len]
    IN  [bootstrapMean |-> DMean(values),
         bootstrapMedian |-> values[(len \div 2) + 1],
         bootstrapMin |-> bMin, bootstrapMax |-> bMax,
         bootstrapLowCI |-> DOrElse(values[((len * 25) \div 1000) + 1], bMin),
         bootstrapHighCI |-> DOrElse(values[((len * 975) \div 1000) + 1], bMax)]

\* The bits of a hexadecimal digit
Nibble(d) == <<d \div 8, (d \div 4) % 2, (d \div 2) % 2, d % 2>>

\* The double 0x1h...h * 2^e, h the thirteen hexadecimal digits after the 1
HexDouble(h, e) ==
    Finite(<<1>> \o Nibble(h[1]) \o Nibble(h[2]) \o Nibble(h[3]) \o Nibble(h[4])
                \o Nibble(h[5]) \o Nibble(h[6]) \o Nibble(h[7]) \o Nibble(h[8])
                \o Nibble(h[9]) \o Nibble(h[10]) \o Nibble(h[11]) \o Nibble(h[12])
                \o Nibble(h[13]), e)

\* 0.1, 0.3, 1 and Number.MAX_VALUE
DTenth == HexDouble(<<9, 9, 9, 9, 9, 9, 9, 9, 9, 9, 9, 9, 10>>, -56)
DThreeTenths == HexDouble(<<3, 3, 3, 3, 3, 3, 3, 3, 3, 3, 3, 3, 3>>, -54)
DOne == HexDouble(<<0, 0, 0, 0, 0, 0, 0, 0, 0, 0, 0, 0, 0>>, -52)
DMaxValue == HexDouble(<<15, 15, 15, 15, 15, 15, 15, 15, 15, 15, 15, 15, 15>>, MaxExponent)

\* The estimates a list is drawn from, all finite
EstimatePool == {DZero, DTenth, DThreeTenths, DOne, DMaxValue}

\* The successful iterations of the lists
MaxEstimates == 3

\* What the steps on doubles leave alone.
DoublesFrame ==
    UNCHANGED <<inputs, pc, cleanData, design, Beta, error, errorVars, result, checks,
                solverCalls, boot, kernel, vifs, objects, selector, app>>

\* bootstrapBetas[i] after the loop, before it is sorted
InitDoubles ==
    /\ variant = "types"
    /\ data = <<>>
    /\ targetVar = "y"
    /\ featureVars = <<>>
    /\ targetLogTransform = FALSE
    /\ targetLogPlusOne = FALSE
    /\ CallStart
    /\ rng = [s |-> 0, inc |-> 0]
    /\ returns = <<>>
    /\ KernelIdle
    /\ VifIdle
    /\ ObjectsIdle
    /\ SelectorIdle
    /\ AppIdle
    /\ dbl_values \in UNION {[1..n -> EstimatePool] : n \in 1..MaxEstimates}
    /\ dbl_entry = <<>>

\* The sort in place and the entry of the coefficient
SummariseDoubles ==
    /\ dbl_entry = <<>>
    /\ dbl_values' = DSort(dbl_values)
    /\ dbl_entry' = <<DRobustnessOf(dbl_values')>>
    /\ DoublesFrame

NextDoubles == SummariseDoubles

SpecDoubles == InitDoubles /\ [][NextDoubles]_vars

(***************************************************************************)
(* The bootstrap loop on arrays as objects                                 *)
(***************************************************************************)
\* X_raw and Y as built by the steps before the loop: the row arrays of
\* X_raw, its outer array, and the array Y.
ShareDesign ==
    /\ pc = "bootstrap"
    /\ heap_pc = "idle"
    /\ LET X == AllocMatrix(<<>>, X_raw)
       IN  /\ heap' = Append(X.heap, NumArray(Y))
           /\ ref_X' = X.ref
           /\ ref_Y' = X.ref + 1
    /\ heap_pc' = "draw"
    /\ UNCHANGED <<ref_X_sample, ref_Y_sample>>
    /\ UNCHANGED <<inputs, pc, cleanData, design, Beta, error, errorVars, result, checks,
                   solverCalls, boot, kernel, vifs, selector, doubles, app>>

\* The draws of an iteration, X_sample and Y_sample.
DrawSample ==
    /\ heap_pc = "draw"
    /\ Resample
    /\ LET X_sample == SampleRows(heap, ref_X, indices')
           Y_sample == SampleNumbers(X_sample.heap, ref_Y, indices')
       IN  /\ heap' = Y_sample.heap
           /\ ref_X_sample' = X_sample.ref
           /\ ref_Y_sample' = Y_sample.ref
    /\ heap_pc' = "solve"
    /\ UNCHANGED <<ref_X, ref_Y, bootstrapBetas, bootFits, selector, doubles, app>>

\* b_sample = solveOLS(X_sample, Y_sample) and the push of its estimates;
\* the arrays of the iteration are out of reach afterwards.
SolveSample ==
    /\ heap_pc = "solve"
    /\ LET b_sample == solveOLSObj(heap, ref_X_sample, ref_Y_sample)
       IN  /\ heap' = SubSeq(b_sample.heap, 1, ref_Y)
           /\ bootstrapBetas' = PushEstimates(bootstrapBetas, b_sample)
           /\ bootFits' = Append(bootFits, b_sample.ok)
    /\ ref_X_sample' = 0
    /\ ref_Y_sample' = 0
    /\ heap_pc' = "draw"
    /\ UNCHANGED <<ref_X, ref_Y>>
    /\ UNCHANGED <<inputs, pc, cleanData, design, Beta, error, errorVars, result, checks,
                   solverCalls, rng, BOOTSTRAP_ITERATIONS, iter, indices, robustness, returns,
                   kernel, vifs, selector, doubles, app>>

NextObjects ==
    \/ Preprocess
    \/ CheckConstant
    \/ CheckIdentical
    \/ BuildDesign
    \/ Solve
    \/ Statistics
    \/ BootstrapStart
    \/ ShareDesign
    \/ DrawSample
    \/ SolveSample

SpecObjects == InitBoot /\ [][NextObjects]_vars

(***************************************************************************)
(* VariableSelector: the choice of target, features and transforms         *)
(***************************************************************************)
\* The headers of the loaded sheet and the column handleAddFeature can add.
Headers == <<"a", "b", "y">>
CreatedHeader == "a^2"

HeaderSet(hs) == {hs[i] : i \in 1..Len(hs)}

\* What the selector leaves alone.
SelectorFrame ==
    UNCHANGED <<inputs, pc, cleanData, design, Beta, error, errorVars, result, checks,
                solverCalls, boot, kernel, vifs, objects, doubles, app>>

\* The auto-select effect: the last column becomes the target (no header of
\* the model contains the preferred words), all others become features.
AutoTarget(hs) == hs[Len(hs)]

\* The component after mounting and its effects.
InitSelector ==
    /\ variant = "types"
    /\ data = <<>>
    /\ targetVar = "y"
    /\ featureVars = <<>>
    /\ targetLogTransform = FALSE
    /\ targetLogPlusOne = FALSE
    /\ CallStart
    /\ rng = [s |-> 0, inc |-> 0]
    /\ returns = <<>>
    /\ KernelIdle
    /\ VifIdle
    /\ ObjectsIdle
    /\ DoublesIdle
    /\ AppIdle
    /\ vs_localHeaders = Headers
    /\ vs_target = AutoTarget(Headers)
    /\ vs_features = HeaderSet(Headers) \ {AutoTarget(Headers)}
    /\ vs_targetLog = FALSE
    /\ vs_targetLogPlusOne = FALSE
    /\ vs_catVars = {}
    /\ vs_logVars = {}
    /\ vs_logPlusOneVars = {}
    /\ vs_handed = <<>>

\* The state updates of toggleFeature(header).
ToggleFeatureUpdate(header) ==
    IF header \in vs_features
    THEN /\ vs_features' = vs_features \ {header}
         /\ vs_catVars' = vs_catVars \ {header}
         /\ vs_logVars' = vs_logVars \ {header}
         /\ vs_logPlusOneVars' = vs_logPlusOneVars \ {header}
    ELSE /\ vs_features' = vs_features \cup {header}
         /\ UNCHANGED <<vs_catVars, vs_logVars, vs_logPlusOneVars>>

\* The checkbox of a row of the feature list.
toggleFeature ==
    /\ \E header \in HeaderSet(vs_localHeaders) \ {vs_target} : ToggleFeatureUpdate(header)
    /\ vs_handed' = <<>>
    /\ UNCHANGED <<vs_localHeaders, vs_target, vs_targetLog, vs_targetLogPlusOne>>
    /\ SelectorFrame

\* logPlusOneVars after toggleCategory(header) made header categorical
PlusOneAfterCategory(plusOne, header) == plusOne \ {header}

\* The button of the category column, enabled for selected features.
toggleCategory ==
    /\ \E header \in (HeaderSet(vs_localHeaders) \ {vs_target}) \cap vs_features :
          IF header \in vs_catVars
          THEN /\ vs_catVars' = vs_catVars \ {header}
               /\ UNCHANGED <<vs_logVars, vs_logPlusOneVars>>
          ELSE /\ vs_catVars' = vs_catVars \cup {header}
               /\ vs_logVars' = vs_logVars \ {header}
               /\ vs_logPlusOneVars' = PlusOneAfterCategory(vs_logPlusOneVars, header)
    /\ vs_handed' = <<>>
    /\ UNCHANGED <<vs_localHeaders, vs_target, vs_targetLog, vs_targetLogPlusOne, vs_features>>
    /\ SelectorFrame

\* logPlusOneVars after toggleLog(header) switched Ln off, with the +1 flag
\* left in place.
PlusOneAfterLogOff_Kept(plusOne, header) == plusOne

\* logPlusOneVars after toggleLog(header) switched Ln off
PlusOneAfterLogOff(plusOne, header) == plusOne \ {header}

\* The Ln button, enabled for selected features that are not categorical.
toggleLog ==
    /\ \E header \in ((HeaderSet(vs_localHeaders) \ {vs_target}) \cap vs_features) \ vs_catVars :
          IF header \in vs_logVars
          THEN /\ vs_logVars' = vs_logVars \ {header}
               /\ vs_logPlusOneVars' = PlusOneAfterLogOff(vs_logPlusOneVars, header)
          ELSE /\ vs_logVars' = vs_logVars \cup {header}
               /\ UNCHANGED vs_logPlusOneVars
    /\ vs_handed' = <<>>
    /\ UNCHANGED <<vs_localHeaders, vs_target, vs_targetLog, vs_targetLogPlusOne,
                   vs_features, vs_catVars>>
    /\ SelectorFrame

\* The +1 button, rendered for the rows whose Ln is on.
toggleLogPlusOne ==
    /\ \E header \in (HeaderSet(vs_localHeaders) \ {vs_target}) \cap vs_logVars :
          vs_logPlusOneVars' = IF header \in vs_logPlusOneVars
                               THEN vs_logPlusOneVars \ {header}
                               ELSE vs_logPlusOneVars \cup {header}
    /\ vs_handed' = <<>>
    /\ UNCHANGED <<vs_localHeaders, vs_target, vs_targetLog, vs_targetLogPlusOne,
                   vs_features, vs_catVars, vs_logVars>>
    /\ SelectorFrame

\* The radio button of a header that is not the target: setTarget(h) and,
\* when h is a feature, toggleFeature(h).
SelectTarget ==
    /\ \E h \in HeaderSet(vs_localHeaders) \ {vs_target} :
          /\ vs_target' = h
          /\ IF h \in vs_features THEN ToggleFeatureUpdate(h)
             ELSE UNCHANGED <<vs_features, vs_catVars, vs_logVars, vs_logPlusOneVars>>
    /\ vs_handed' = <<>>
    /\ UNCHANGED <<vs_localHeaders, vs_targetLog, vs_targetLogPlusOne>>
    /\ SelectorFrame

\* targetLogPlusOne after the Ln checkbox of the target was switched off
TargetPlusOneAfterLogOff(plusOne) == FALSE

\* The Ln checkbox in the row of the target.
ToggleTargetLog ==
    /\ vs_target \in HeaderSet(vs_localHeaders)
    /\ vs_targetLog' = ~vs_targetLog
    /\ vs_targetLogPlusOne' = IF vs_targetLog
                               THEN TargetPlusOneAfterLogOff(vs_targetLogPlusOne)
                               ELSE vs_targetLogPlusOne
    /\ vs_handed' = <<>>
    /\ UNCHANGED <<vs_localHeaders, vs_target, vs_features, vs_catVars, vs_logVars,
                   vs_logPlusOneVars>>
    /\ SelectorFrame

\* The +1 checkbox of the target, rendered while its Ln is on.
ToggleTargetLogPlusOne ==
    /\ vs_target \in HeaderSet(vs_localHeaders)
    /\ vs_targetLog
    /\ vs_targetLogPlusOne' = ~vs_targetLogPlusOne
    /\ vs_handed' = <<>>
    /\ UNCHANGED <<vs_localHeaders, vs_target, vs_targetLog, vs_features, vs_catVars,
                   vs_logVars, vs_logPlusOneVars>>
    /\ SelectorFrame

\* handleAddFeature for the square of the first column: a new header,
\* selected as a feature; nothing happens when the header exists.
handleAddFeature ==
    /\ CreatedHeader \notin HeaderSet(vs_localHeaders)
    /\ vs_localHeaders' = Append(vs_localHeaders, CreatedHeader)
    /\ vs_features' = vs_features \cup {CreatedHeader}
    /\ vs_handed' = <<>>
    /\ UNCHANGED <<vs_target, vs_targetLog, vs_targetLogPlusOne, vs_catVars, vs_logVars,
                   vs_logPlusOneVars>>
    /\ SelectorFrame

\* handleClearAll; when the headers change back to those of the sheet, the
\* auto-select effect runs again on the empty target.
handleClearAll ==
    /\ vs_localHeaders' = Headers
    /\ IF vs_localHeaders # Headers
       THEN /\ vs_target' = AutoTarget(Headers)
            /\ vs_features' = HeaderSet(Headers) \ {AutoTarget(Headers)}
       ELSE /\ vs_target' = ""
            /\ vs_features' = {}
    /\ vs_catVars' = {}
    /\ vs_logVars' = {}
    /\ vs_logPlusOneVars' = {}
    /\ vs_targetLog' = FALSE
    /\ vs_targetLogPlusOne' = FALSE
    /\ vs_handed' = <<>>
    /\ SelectorFrame

\* featureConfigs of handleRun
FeatureConfigs ==
    {[name |-> name,
      type |-> IF name \in vs_catVars THEN "categorical" ELSE "numeric",
      logTransform |-> name \in vs_logVars,
      logPlusOne |-> name \in vs_logPlusOneVars] : name \in vs_features}

\* handleRun when its validations pass: the configuration goes to
\* onConfigComplete.
handleRun ==
    /\ vs_handed' = <<[target |-> vs_target, features |-> FeatureConfigs,
                       targetLogTransform |-> vs_targetLog,
                       targetLogPlusOne |-> vs_targetLogPlusOne]>>
    /\ UNCHANGED <<vs_localHeaders, vs_target, vs_targetLog, vs_targetLogPlusOne,
                   vs_features, vs_catVars, vs_logVars, vs_logPlusOneVars>>
    /\ SelectorFrame

NextSelector ==
    \/ toggleFeature
    \/ toggleCategory
    \/ toggleLog
    \/ toggleLogPlusOne
    \/ SelectTarget
    \/ ToggleTargetLog
    \/ ToggleTargetLogPlusOne
    \/ handleAddFeature
    \/ handleClearAll
    \/ handleRun

SpecSelector == InitSelector /\ [][NextSelector]_vars

(***************************************************************************)
(* performRegression on a sheet whose headers resemble built column names  *)
(***************************************************************************)
\* A row of a sheet with the columns y, a, ln_a, g and g_B.
NamedRow(y, a, ln_a, g, g_B) ==
    [y |-> NumCell(Num(y)), a |-> NumCell(Num(a)), ln_a |-> NumCell(Num(ln_a)),
     g |-> StrCell(g), g_B |-> NumCell(Num(g_B))]

NamedRowPool ==
    { NamedRow(1, 1, 2, "A", 1), NamedRow(2, 2, 1, "B", 0),
      NamedRow(0, 3, 0, "A", 2), NamedRow(3, 1, 1, "B", 1) }

\* Feature lists with pairwise distinct feature names.
NamedFeatureLists ==
    { <<>>,
      <<Numeric("ln_a", FALSE, FALSE), Numeric("a", TRUE, FALSE)>>,
      <<Numeric("ln_a", FALSE, FALSE), Numeric("a", TRUE, TRUE)>>,
      <<Numeric("g_B", FALSE, FALSE), Categorical("g")>>,
      <<Numeric("a", FALSE, FALSE), Categorical("g")>> }

InitNamed ==
    /\ variant \in {"types", "part_001"}
    /\ data \in UNION {[1..n -> NamedRowPool] : n \in 0..MaxRows}
    /\ targetVar = "y"
    /\ featureVars \in NamedFeatureLists
    /\ targetLogTransform = FALSE
    /\ targetLogPlusOne = FALSE
    /\ CallStart
    /\ rng = [s |-> 0, inc |-> 0]
    /\ returns = <<>>
    /\ KernelIdle
    /\ VifIdle
    /\ ViewsIdle

SpecNamed == InitNamed /\ [][Next]_vars

(***************************************************************************)
(* The resampling of the bootstrap loop alone, for small and large n       *)
(***************************************************************************)
\* Numbers n of clean rows on both sides of the iteration threshold.
ResampleSizes == {2, 3, 2000, 2001}

\* A call that has computed its main model on n clean rows.  The loop header
\* and the index draws read n = Y.length only; the other locals are left as
\* they are at the start of the call.
InitResample ==
    /\ variant = "types"
    /\ data = <<>>
    /\ targetVar = "y"
    /\ featureVars = <<>>
    /\ targetLogTransform = FALSE
    /\ targetLogPlusOne = FALSE
    /\ pc = "done"
    /\ cleanData = <<>>
    /\ \E n \in ResampleSizes : Y = [i \in 1..n |-> Zero]
    /\ featureNames = <<>>
    /\ X_raw = <<>>
    /\ Beta = <<>>
    /\ error = "none"
    /\ errorVars = <<>>
    /\ result = NoResult
    /\ checks = <<>>
    /\ solverCalls = <<>>
    /\ BOOTSTRAP_ITERATIONS = 0
    /\ iter = 0
    /\ indices = <<>>
    /\ bootstrapBetas = <<>>
    /\ robustness = <<>>
    /\ bootFits = <<>>
    /\ rng \in Seeds
    /\ returns = <<>>
    /\ KernelIdle
    /\ VifIdle
    /\ ViewsIdle

\* One iteration without its refit.
ResampleOnly ==
    /\ Resample
    /\ UNCHANGED <<bootstrapBetas, bootFits, views>>

NextResample ==
    \/ BootstrapStart
    \/ ResampleOnly

SpecResample == InitResample /\ [][NextResample]_vars

(***************************************************************************)
(* App: the steps UPLOAD, CONFIG and RESULTS around performRegression      *)
(*                                                                         *)
(* A handler runs when the component that holds it is mounted (App.tsx     *)
(* 117-151).  handleConfigComplete is the call of performRegression, the   *)
(* steps of the call, and its continuation after the return or in the      *)
(* catch block; React applies the state updates of a handler together.     *)
(* The timestamp of a history entry is not modelled.                       *)
(***************************************************************************)
\* The sheets the uploader hands over
AppSheets == {c.data : c \in BootInputs}

\* The columns of a sheet
SheetHeaders(sheet) == DOMAIN sheet[1]

\* The histories a file can bring
ImportedHistories ==
    {<<>>,
     <<[id |-> 0, target |-> "y", features |-> <<>>,
        targetLogTransform |-> FALSE, targetLogPlusOne |-> FALSE,
        metrics |-> [r2 |-> Zero, rmse |-> Zero, adjustedR2 |-> Zero, observations |-> 0]]>>}

\* What the handlers of App leave alone beside the call.
AppFrame == UNCHANGED <<kernel, vifs, objects, selector, doubles>>

\* No call of performRegression is under way.
CallFrame ==
    UNCHANGED <<inputs, pc, cleanData, design, Beta, error, errorVars, result, checks,
                solverCalls, boot>>

InitApp ==
    /\ variant \in {"types", "part_001"}
    /\ data = <<>>
    /\ targetVar = ""
    /\ featureVars = <<>>
    /\ targetLogTransform = FALSE
    /\ targetLogPlusOne = FALSE
    /\ CallStart
    /\ rng = [s |-> 0, inc |-> 1]
    /\ returns = <<>>
    /\ KernelIdle
    /\ VifIdle
    /\ ViewsIdle

handleDataLoaded ==
    /\ currentState = "UPLOAD"
    /\ app_pc = "idle"
    /\ \E loadedData \in AppSheets :
          /\ app_data' = loadedData
          /\ app_headers' = SheetHeaders(loadedData)
    /\ currentState' = "CONFIG"
    /\ app_error' = <<>>
    /\ UNCHANGED <<regressionResult, history, app_targetVar, app_pc>>
    /\ CallFrame
    /\ AppFrame

\* handleConfigComplete up to the first statement of performRegression: the
\* target, the features and the rows come from the VariableSelector.
ConfigCompleteCall ==
    /\ currentState = "CONFIG"
    /\ app_pc = "idle"
    /\ Len(returns) < MaxCalls
    /\ \E c \in BootInputs :
          /\ c.data = app_data
          /\ data' = c.data
          /\ featureVars' = c.features
    /\ targetVar' = "y"
    /\ targetLogTransform' = FALSE
    /\ targetLogPlusOne' = FALSE
    /\ app_error' = <<>>
    /\ app_targetVar' = "y"
    /\ app_pc' = "calling"
    /\ pc' = "start"
    /\ cleanData' = <<>>
    /\ Y' = <<>>
    /\ featureNames' = <<>>
    /\ X_raw' = <<>>
    /\ Beta' = <<>>
    /\ error' = "none"
    /\ errorVars' = <<>>
    /\ result' = NoResult
    /\ checks' = <<>>
    /\ solverCalls' = <<>>
    /\ BOOTSTRAP_ITERATIONS' = 0
    /\ iter' = 0
    /\ indices' = <<>>
    /\ bootstrapBetas' = <<>>
    /\ robustness' = <<>>
    /\ bootFits' = <<>>
    /\ UNCHANGED <<variant, rng, returns, currentState, app_data, app_headers,
                   regressionResult, history>>
    /\ AppFrame

\* The steps of the call
ConfigCompleteStep ==
    /\ app_pc = "calling"
    /\ \/ Preprocess
       \/ CheckConstant
       \/ CheckIdentical
       \/ BuildDesign
       \/ Solve
       \/ Statistics
       \/ BootstrapStart
       \/ BootstrapIteration
       \/ Robustness

\* [newHistoryItem, ...prev] with no entry put in front
HistoryWith_Unchanged(item, prev) == prev

\* [newHistoryItem, ...prev]
HistoryWith(item, prev) == <<item>> \o prev

\* newHistoryItem; the id is one no entry made before has
NewHistoryItem(r) ==
    [id |-> Len(returns), target |-> targetVar, features |-> featureVars,
     targetLogTransform |-> targetLogTransform, targetLogPlusOne |-> targetLogPlusOne,
     metrics |-> [r2 |-> r.r2, rmse |-> MathSqrt(r.mse), adjustedR2 |-> r.adjustedR2,
                  observations |-> r.observations]]

\* handleConfigComplete after performRegression returned
ConfigCompleteReturn ==
    /\ app_pc = "calling"
    /\ pc = "returned"
    /\ regressionResult' = <<returns[Len(returns)]>>
    /\ history' = HistoryWith(NewHistoryItem(result), history)
    /\ currentState' = "RESULTS"
    /\ app_pc' = "idle"
    /\ UNCHANGED <<app_data, app_headers, app_error, app_targetVar>>
    /\ CallFrame
    /\ AppFrame

\* handleConfigComplete in its catch block: every Error of performRegression
\* has a message.
ConfigCompleteCatch ==
    /\ app_pc = "calling"
    /\ pc = "failed"
    /\ app_error' = <<error>>
    /\ app_pc' = "idle"
    /\ UNCHANGED <<currentState, app_data, app_headers, regressionResult, history,
                   app_targetVar>>
    /\ CallFrame
    /\ AppFrame

\* onBack of the VariableSelector and onUploadNew of the ResultsView
handleReset ==
    /\ app_pc = "idle"
    /\ \/ currentState = "CONFIG"
       \/ currentState = "RESULTS" /\ regressionResult # <<>>
    /\ app_data' = <<>>
    /\ app_headers' = {}
    /\ app_targetVar' = ""
    /\ regressionResult' = <<>>
    /\ app_error' = <<>>
    /\ currentState' = "UPLOAD"
    /\ UNCHANGED <<history, app_pc>>
    /\ CallFrame
    /\ AppFrame

handleBackToConfig ==
    /\ app_pc = "idle"
    /\ currentState = "RESULTS"
    /\ regressionResult # <<>>
    /\ app_error' = <<>>
    /\ regressionResult' = <<>>
    /\ currentState' = "CONFIG"
    /\ UNCHANGED <<app_data, app_headers, history, app_targetVar, app_pc>>
    /\ CallFrame
    /\ AppFrame

handleImportHistory ==
    /\ app_pc = "idle"
    /\ currentState = "CONFIG"
    /\ history' \in ImportedHistories
    /\ UNCHANGED <<currentState, app_data, app_headers, regressionResult, app_error,
                   app_targetVar, app_pc>>
    /\ CallFrame
    /\ AppFrame

NextApp ==
    \/ handleDataLoaded
    \/ ConfigCompleteCall
    \/ ConfigCompleteStep
    \/ ConfigCompleteReturn
    \/ ConfigCompleteCatch
    \/ handleReset
    \/ handleBackToConfig
    \/ handleImportHistory

SpecApp == InitApp /\ [][NextApp]_vars

(***************************************************************************)
(* Properties                                                              *)
(***************************************************************************)
Range(q) == {q[i] : i \in 1..Len(q)}
Preprocessed == pc # "start"
Finished == pc \in {"failed", "done"}
Built == featureNames # <<>>

\* The indices of the input rows that pass the filter callback.
ValidIdx ==
    {i \in 1..Len(data) :
        IsValidRow(data[i], targetVar, featureVars, targetLogTransform, targetLogPlusOne)}

\* The j-th smallest valid index.
NthValid(j) == CHOOSE i \in ValidIdx : Cardinality({m \in ValidIdx : m < i}) = j - 1

\* C1: the clean rows are exactly the valid input rows, in input order: the
\* j-th clean row is the input row at the j-th smallest valid index.
C1_CleanRowsSubsequence ==
    Preprocessed =>
        /\ Len(cleanData) = Cardinality(ValidIdx)
        /\ \A j \in 1..Len(cleanData) : cleanData[j] = data[NthValid(j)]

\* C1 witness: an invalid row between two different valid rows was dropped.
C1_Witness ==
    /\ Preprocessed
    /\ Len(data) = 3
    /\ ValidIdx = {1, 3}
    /\ data[1] # data[3]
    /\ cleanData = <<data[1], data[3]>>

\* A target cell that is missing, empty, non-numeric text, or infinite.
IsBadTarget(c) ==
    \/ c.t \in {"null", "undefined"}
    \/ c.t = "string" /\ (c.str = "" \/ ~IsFinite(StringToNumber(c.str)))
    \/ c.t = "number" /\ ~IsFinite(c.num)

\* C2: no clean row has a target that is missing (null or absent), the empty
\* string, non-numeric text, or an infinite value.
C2_BadTargetExcluded ==
    Preprocessed => \A j \in 1..Len(cleanData) : ~IsBadTarget(cleanData[j][targetVar])

\* The configuration with every log transform switched off.
NoLog(f) == [f EXCEPT !.logTransform = FALSE, !.logPlusOne = FALSE]
LoggedFeatures ==
    {i \in 1..Len(featureVars) :
        featureVars[i].type = "numeric" /\ featureVars[i].logTransform}

\* The row passes every check other than the log domain checks: it is valid
\* without the transforms and its log-transformed features are numbers.
PassesOtherChecks(row) ==
    /\ IsValidRow(row, targetVar, [i \in 1..Len(featureVars) |-> NoLog(featureVars[i])],
                  FALSE, FALSE)
    /\ \A i \in LoggedFeatures : ~isNaN(Number(row[featureVars[i].name]))

\* x > 0 for ln, x > -1 for ln(x + 1)
InDomain(x, plusOne) == IF plusOne THEN Lt(Num(-1), x) ELSE Lt(Zero, x)

DomainOK(row) ==
    /\ targetLogTransform => InDomain(Number(row[targetVar]), targetLogPlusOne)
    /\ \A i \in LoggedFeatures :
          InDomain(Number(row[featureVars[i].name]), featureVars[i].logPlusOne)

\* C3: among the rows that pass all other checks, a row is kept exactly when
\* the value of every log-transformed column is inside the domain of its
\* transform (value > 0 for ln, value > -1 for ln(x+1)).
C3_LogDomainExact ==
    Preprocessed =>
        \A i \in 1..Len(data) :
            PassesOtherChecks(data[i]) =>
                ((data[i] \in Range(cleanData)) <=> DomainOK(data[i]))

\* C3 witness: with ln on the target and on a feature, one row is removed by
\* a domain check and another row is kept.
C3_Witness ==
    /\ Preprocessed
    /\ targetLogTransform /\ ~targetLogPlusOne /\ LoggedFeatures # {}
    /\ \E i, j \in 1..Len(data) :
          /\ PassesOtherChecks(data[i]) /\ ~DomainOK(data[i])
          /\ data[i] \notin Range(cleanData)
          /\ PassesOtherChecks(data[j]) /\ DomainOK(data[j])
          /\ data[j] \in Range(cleanData)

\* C4: when no row survives preprocessing the run fails with the
\* empty-dataset error, returns nothing, and has evaluated no other check.
C4_EmptyDatasetError ==
    (Preprocessed /\ ValidIdx = {}) =>
        /\ pc = "failed"
        /\ error = "EmptyDataset"
        /\ result = NoResult
        /\ checks = <<"empty">>
        /\ solverCalls = <<>>

\* C4 witness: a non-empty input of which no row survives.
C4_Witness ==
    /\ pc = "failed" /\ error = "EmptyDataset"
    /\ Len(data) = MaxRows /\ cleanData = <<>>
    /\ featureVars # <<>>

\* Number values that are equal under ===.
SameNumber(x, y) == ~isNaN(x) /\ ~isNaN(y) /\ x = y

\* The numeric feature has the same value in every clean row.
ZeroVariance(f) ==
    /\ f.type = "numeric"
    /\ cleanData # <<>>
    /\ \A i, j \in 1..Len(cleanData) :
          SameNumber(Number(cleanData[i][f.name]), Number(cleanData[j][f.name]))

\* C5: when a numeric feature is constant over the clean rows, the solver is
\* never called and the run ends with the constant-variable error naming a
\* constant variable.
C5_ConstantVariableRejected ==
    (Preprocessed /\ \E i \in 1..Len(featureVars) : ZeroVariance(featureVars[i])) =>
        /\ solverCalls = <<>>
        /\ Finished =>
              /\ error = "ConstantVariable"
              /\ \E i \in 1..Len(featureVars) :
                    ZeroVariance(featureVars[i]) /\ errorVars = <<featureVars[i].name>>

\* Two Number values within 1e-9 of each other.
WithinEps(x, y) == AbsBelow(Sub(x, y), EPS_EXP)

\* Two numeric features whose values agree within 1e-9 in every clean row.
SameColumns(f1, f2) ==
    /\ f1.type = "numeric" /\ f2.type = "numeric"
    /\ cleanData # <<>>
    /\ \A r \in 1..Len(cleanData) :
          WithinEps(Number(cleanData[r][f1.name]), Number(cleanData[r][f2.name]))

\* C6: when two numeric features agree within 1e-9 in every clean row, the
\* solver is never called and the run ends with the duplicate-variable error
\* naming both.  Runs with a constant numeric feature are left out: the
\* constant-variable check comes first and rejects them (C5).
C6_DuplicateVariableRejected ==
    \A i, j \in 1..Len(featureVars) :
        (/\ Preprocessed /\ i < j /\ SameColumns(featureVars[i], featureVars[j])
         /\ \A c \in 1..Len(featureVars) : ~ZeroVariance(featureVars[c])) =>
            /\ solverCalls = <<>>
            /\ Finished =>
                  /\ error = "DuplicateVariable"
                  /\ errorVars = <<featureVars[i].name, featureVars[j].name>>

\* The number k of design-matrix columns: the intercept, one per numeric
\* feature, and one per level but the first of each categorical feature.
RECURSIVE ParamCountFrom(_)
ParamCountFrom(i) ==
    IF i > Len(featureVars) THEN 0
    ELSE (IF featureVars[i].type = "numeric" THEN 1
          ELSE Cardinality({String(cleanData[r][featureVars[i].name]) :
                                r \in 1..Len(cleanData)}) - 1)
         + ParamCountFrom(i + 1)

ParamCount == 1 + ParamCountFrom(1)

\* C7 as stated: every finished run with n <= k ended with the
\* insufficient-sample-size error.
C7_InsufficientWheneverNLeK ==
    (Finished /\ Len(cleanData) <= ParamCount) => error = "InsufficientSampleSize"

\* C7 amended: every finished run with 1 <= n <= k ended with the
\* insufficient-sample-size error without calling the solver, unless the
\* constant-variable or duplicate-variable check rejected it first.
C7_InsufficientUnlessRejectedEarlier ==
    (Finished /\ 1 <= Len(cleanData) /\ Len(cleanData) <= ParamCount
              /\ error \notin {"ConstantVariable", "DuplicateVariable"}) =>
        /\ error = "InsufficientSampleSize"
        /\ solverCalls = <<>>

\* C7 witness: n = k = 2 with a non-constant numeric feature.
C7_Witness ==
    /\ pc = "failed" /\ error = "InsufficientSampleSize"
    /\ variant = "types"
    /\ Len(cleanData) = 2 /\ ParamCount = 2
    /\ featureVars # <<>> /\ featureVars[1].type = "numeric"

\* C8: a returned result has more observations than coefficients, and the
\* solver was only ever called on a main design matrix with n > k.
C8_MoreRowsThanParams ==
    /\ pc = "done" =>
          /\ result.observations = Len(cleanData)
          /\ result.observations > Len(result.coefficients)
          /\ Len(result.coefficients) = ParamCount
    /\ \A c \in 1..Len(solverCalls) : solverCalls[c][1] > solverCalls[c][2]

\* C8 witness: a result with n = k + 1.
C8_Witness ==
    /\ pc = "done"
    /\ result.observations = 3 /\ Len(result.coefficients) = 2

\* The distinct levels of a categorical feature over the clean rows.
LevelsOf(f) == {String(cleanData[r][f.name]) : r \in 1..Len(cleanData)}

\* The columns of the design matrix named <var>_<level>.
ColumnsNamed(f, s) == {j \in 1..Len(featureNames) : featureNames[j] = f.name \o "_" \o s}

IsReference(f, s) == \A z \in LevelsOf(f) \ {s} : StrLess(s, z)

\* C9: for each categorical feature the first level in sorted order has no
\* column, every other level has exactly one column <var>_<level>, these
\* columns are in sorted order, and each row has 1 in the column of its own
\* level and 0 in the column of any other level.
C9_CategoricalEncoding ==
    Built =>
        /\ Len(featureNames) = ParamCount
        /\ \A r \in 1..Len(X_raw) : Len(X_raw[r]) = Len(featureNames)
        /\ \A i \in 1..Len(featureVars) :
              LET f == featureVars[i]
              IN  f.type = "categorical" =>
                    /\ \A s \in LevelsOf(f) :
                          Cardinality(ColumnsNamed(f, s)) = IF IsReference(f, s) THEN 0 ELSE 1
                    /\ \A s, t \in LevelsOf(f) :
                          \A js \in ColumnsNamed(f, s), jt \in ColumnsNamed(f, t) :
                              js < jt => StrLess(s, t)
                    /\ \A s \in LevelsOf(f) : \A j \in ColumnsNamed(f, s) :
                          \A r \in 1..Len(X_raw) :
                              X_raw[r][j] = IF String(cleanData[r][f.name]) = s
                                            THEN One ELSE Zero

\* C9 witness: levels A, B, C give the columns g_B and g_C.
C9_Witness ==
    /\ Built
    /\ featureNames = <<"Intercept", "g_B", "g_C">>
    /\ X_raw = <<<<One, Zero, Zero>>, <<One, One, Zero>>, <<One, Zero, One>>>>

\* C10: a returned result has one coefficient per design-matrix column, in
\* column order and with the column's name, the first being the intercept;
\* column 0 of every design-matrix row is 1.
C10_CoefficientPerColumn ==
    /\ pc = "done" =>
          /\ Len(result.coefficients) = Len(featureNames)
          /\ \A r \in 1..Len(X_raw) : Len(X_raw[r]) = Len(result.coefficients)
          /\ \A i \in 1..Len(result.coefficients) :
                /\ result.coefficients[i].name = featureNames[i]
                /\ result.coefficients[i].value = Beta[i]
          /\ result.coefficients[1].name = "Intercept"
    /\ \A r \in 1..Len(X_raw) : Len(X_raw[r]) >= 1 /\ X_raw[r][1] = One

\* C10 witness: a result with the intercept and one dummy column.
C10_Witness ==
    /\ pc = "done"
    /\ Len(result.coefficients) = 2
    /\ result.coefficients[1].name = "Intercept"
    /\ result.coefficients[2].name = "g_B"

\* The target of a clean row after the target transform.
TransformedTarget(row) ==
    IF ~targetLogTransform THEN Number(row[targetVar])
    ELSE IF targetLogPlusOne THEN MathLog1p(Number(row[targetVar]))
    ELSE MathLog(Number(row[targetVar]))

\* C11: a returned result has one prediction per clean row and observations
\* counts them; the i-th prediction carries the transformed target of the i-th
\* clean row as actual, that row's fitted value as predicted, that row's
\* category values, and residual = actual - predicted.
C11_PredictionPerCleanRow ==
    pc = "done" =>
        /\ Len(result.predictions) = Len(cleanData)
        /\ result.observations = Len(result.predictions)
        /\ \A i \in 1..Len(result.predictions) :
              LET p == result.predictions[i]
              IN  /\ p.actual = TransformedTarget(cleanData[i])
                  /\ p.predicted = PredictFrom(X_raw[i], Beta, 1, Zero)
                  /\ p.residual = Sub(p.actual, p.predicted)
                  /\ \A f \in DOMAIN p.categories :
                        p.categories[f] = String(cleanData[i][featureVars[f].name])

\* C11 witness: three input rows of which the second was dropped, and two
\* predictions with different actual values and non-zero residuals.
C11_Witness ==
    /\ pc = "done"
    /\ Len(data) = 3 /\ ValidIdx = {1, 3}
    /\ Len(result.predictions) = 2
    /\ result.predictions[1].actual # result.predictions[2].actual
    /\ result.predictions[1].residual # Zero
    /\ IsFinite(result.predictions[1].residual)

\* The design-matrix column of feature i, which is the first of its columns.
ColumnOf(i) == ParamCount - ParamCountFrom(i) + 1

\* C17: the column of a numeric feature holds Number(value) when logTransform
\* is off (whatever logPlusOne is), ln(value) when logTransform is on without
\* logPlusOne and ln(value + 1) when both are on, and its name is the variable
\* name with no prefix, with ln_, and with ln1p_ respectively.
C17_NumericColumnTransform ==
    Built =>
        \A i \in 1..Len(featureVars) :
            LET f == featureVars[i]
                j == ColumnOf(i)
                raw(r) == Number(cleanData[r][f.name])
            IN  f.type = "numeric" =>
                  /\ j \in 2..Len(featureNames)
                  /\ IF ~f.logTransform
                     THEN /\ featureNames[j] = f.name
                          /\ \A r \in 1..Len(X_raw) : X_raw[r][j] = raw(r)
                     ELSE IF ~f.logPlusOne
                     THEN /\ featureNames[j] = "ln_" \o f.name
                          /\ \A r \in 1..Len(X_raw) : X_raw[r][j] = MathLog(raw(r))
                     ELSE /\ featureNames[j] = "ln1p_" \o f.name
                          /\ \A r \in 1..Len(X_raw) : X_raw[r][j] = MathLog(Add(raw(r), One))

\* C17 witness: ln(a + 1) of a = 0, 1, 2 in the column ln1p_a.
C17_Witness ==
    /\ Built
    /\ featureNames = <<"Intercept", "ln1p_a">>
    /\ X_raw = <<<<One, Zero>>, <<One, Fin(7, 10)>>, <<One, Fin(11, 10)>>>>

\* C17 witness of the flags in disagreement: logPlusOne without logTransform
\* leaves the column b raw and unprefixed.
C17_WitnessPlusOneOnly ==
    /\ Built
    /\ Len(featureVars) = 2 /\ featureVars[2].logPlusOne /\ ~featureVars[2].logTransform
    /\ featureNames = <<"Intercept", "a", "b">>
    /\ Len(X_raw) = 3 /\ X_raw[3][3] = Num(2)

\* r2 and adjustedR2 recomputed from the predictions of a result.
R2Of(res) ==
    LET acts == [i \in 1..Len(res.predictions) |-> res.predictions[i].actual]
        sst == SumFrom([i \in 1..Len(acts) |-> Square(Sub(acts[i], mean(acts)))], 1, Zero)
        sse == SumFrom([i \in 1..Len(acts) |-> Square(res.predictions[i].residual)], 1, Zero)
    IN  Sub(One, Div(sse, sst))

AdjustedR2Of(res) ==
    LET n == res.observations
        k == Len(res.coefficients)
    IN  Sub(One, Div(Mul(Sub(One, R2Of(res)), Num(n - 1)), Num(n - k)))

\* C19: a returned result with k > 1 has r2 = 1 - SSE/SST,
\* adjustedR2 = 1 - (1 - r2)(n - 1)/(n - k), and adjustedR2 <= r2.
C19_AdjustedAtMostR2 ==
    (pc = "done" /\ Len(result.coefficients) > 1) =>
        /\ result.r2 = R2Of(result)
        /\ result.adjustedR2 = AdjustedR2Of(result)
        /\ Le(result.adjustedR2, result.r2)

\* C12: a returned result has one robustness summary per non-intercept
\* coefficient (k - 1 of them), in coefficient order, each with the name and
\* the estimate of its coefficient, whatever the features are called.
C12_RobustnessPerCoefficient ==
    pc = "returned" =>
        /\ Len(robustness) = Len(result.coefficients) - 1
        /\ \A i \in 1..Len(robustness) :
              /\ i + 1 <= Len(result.coefficients)
              /\ robustness[i].name = result.coefficients[i + 1].name
              /\ robustness[i].original = result.coefficients[i + 1].value

\* No refit of the bootstrap loop returned estimates.
NoBootstrapSuccess == \A i \in 1..Len(bootFits) : ~bootFits[i]

IsPlaceholder(r) ==
    /\ r.bootstrapMean = Zero /\ r.bootstrapMedian = Zero
    /\ r.bootstrapMin = Zero /\ r.bootstrapMax = Zero
    /\ r.bootstrapLowCI = Zero /\ r.bootstrapHighCI = Zero

\* C13: the bootstrap never makes a run fail: during and after the loop no
\* error is set, the loop never passes its iteration count, and the result of
\* the main model is what is returned.  When no iteration succeeded, every
\* robustness entry has mean, median, min, max, low CI and high CI equal to
\* 0 and original equal to the estimate of the coefficient it is named after.
C13_BootstrapNeverFails ==
    /\ pc \in {"bootstrap", "returned"} =>
          /\ error = "none"
          /\ iter <= BOOTSTRAP_ITERATIONS
          /\ Len(bootFits) = iter
          /\ result # NoResult
    /\ pc = "returned" =>
          /\ returns[Len(returns)].result = result
          /\ NoBootstrapSuccess =>
                \A i \in 1..Len(robustness) :
                    /\ IsPlaceholder(robustness[i])
                    /\ \E c \in 1..Len(result.coefficients) :
                          /\ result.coefficients[c].name = robustness[i].name
                          /\ result.coefficients[c].value = robustness[i].original

\* C13 witness: fifty failed refits, and a result with a placeholder entry
\* for a coefficient that is not 0.
C13_Witness ==
    /\ pc = "returned"
    /\ Len(bootFits) = 50 /\ NoBootstrapSuccess
    /\ Len(robustness) = 1
    /\ IsPlaceholder(robustness[1])
    /\ robustness[1].original # Zero

\* C14: two calls with the same rows and configuration return the same
\* result, robustness summaries included.
C14_SameInputsSameResult ==
    \A i, j \in 1..Len(returns) : returns[i] = returns[j]

\* X'X of the design matrix is singular for inverse.
MainFitSingular == ~inverse(multiply(transpose(X_raw), X_raw)).ok

\* X'X of the rows drawn by the latest bootstrap iteration is singular.
LatestSampleSingular ==
    ~inverse(multiply(transpose(Sample(X_raw, indices)), Sample(X_raw, indices))).ok

\* C16: once the main fit has run, the run has failed with the solver error
\* and holds no estimates and no result exactly when inverse fails on X'X,
\* and then nothing is ever returned; a bootstrap refit gives no estimates
\* exactly when inverse fails on its sample, and that sets no error.
C16_NullFromSolver ==
    /\ solverCalls # <<>> =>
          IF MainFitSingular
          THEN /\ pc = "failed" /\ error = "SingularMatrix"
               /\ Beta = <<>> /\ result = NoResult /\ returns = <<>>
          ELSE error = "none" /\ Len(Beta) = Len(featureNames)
    /\ (pc = "bootstrap" /\ iter > 0) =>
          /\ bootFits[iter] = ~LatestSampleSingular
          /\ error = "none"
    /\ \A j \in 1..Len(bootstrapBetas) :
          Len(bootstrapBetas[j]) = Cardinality({i \in 1..Len(bootFits) : bootFits[i]})

\* C16 witness: a result was returned although some bootstrap refits gave
\* no estimates and others did.
C16_Witness ==
    /\ pc = "returned" /\ error = "none"
    /\ \E i, j \in 1..Len(bootFits) : ~bootFits[i] /\ bootFits[j]
    /\ Len(result.coefficients) = 2

\* C16 witness of the main fit: solveOLS gave no estimates and the run failed.
C16_WitnessMainFit ==
    /\ pc = "failed" /\ error = "SingularMatrix"
    /\ solverCalls = <<<<3, 2>>>>
    /\ MainFitSingular

\* C20: the loop runs exactly 50 iterations when n <= 2000 and exactly 20
\* when n > 2000 (it never passes that count and goes on while below it), and
\* every iteration draws n row indices, each in 0..n-1.
C20_IterationCount ==
    pc = "bootstrap" =>
        /\ BOOTSTRAP_ITERATIONS = (IF Len(Y) <= 2000 THEN 50 ELSE 20)
        /\ iter <= BOOTSTRAP_ITERATIONS
        /\ iter < BOOTSTRAP_ITERATIONS => ENABLED ResampleOnly
        /\ iter > 0 =>
              /\ Len(indices) = Len(Y)
              /\ \A j \in 1..Len(indices) : indices[j] \in 0..(Len(Y) - 1)

\* C20 witness: the twentieth and last iteration on 2001 rows, with draws
\* from both ends of the rows.
C20_Witness ==
    /\ pc = "bootstrap"
    /\ Len(Y) = 2001
    /\ iter = 20 /\ ~ENABLED ResampleOnly
    /\ \E i, j \in 1..Len(indices) : indices[i] = 0 /\ indices[j] > 1000

\* C20 witness at the threshold: the fiftieth iteration on 2000 rows.
C20_WitnessAtThreshold ==
    /\ pc = "bootstrap"
    /\ Len(Y) = 2000
    /\ iter = 50 /\ ~ENABLED ResampleOnly

\* The rows below i whose entry in column i has a magnitude above 1e-10.
UsableBelow(mat, i) == {k \in (i + 1)..Len(mat) : AbsAbove(mat[k][i], 10)}

Exchanged(mat, i, k) ==
    [r \in 1..Len(mat) |-> IF r = i THEN mat[k] ELSE IF r = k THEN mat[i] ELSE mat[r]]

\* C15: at every pass i of inverse, a pivot whose magnitude is not below
\* 1e-10 leaves the rows where they are; a pivot below it makes the first
\* lower row with a usable entry in column i change places with row i, in the
\* working matrix and in the identity side alike; inverse throws exactly when
\* the pivot is below the tolerance and no lower row is usable, and for no
\* other reason.  The passes taken together are inverse as performRegression
\* uses it.
C15_PivotSearch ==
    /\ \A e \in 1..Len(inv_log) :
          LET L == inv_log[e]
              below == AbsBelow(L.before[L.i][L.i], 10)
              U == UsableBelow(L.before, L.i)
          IN  /\ L.thrown <=> (below /\ U = {})
              /\ L.thrown => (e = Len(inv_log) /\ inv_pc = "thrown")
              /\ ~below => (L.after = L.before /\ L.afterIdentity = L.beforeIdentity)
              /\ (below /\ U # {}) =>
                    LET k == CHOOSE u \in U : \A w \in U : u <= w
                    IN  /\ L.after = Exchanged(L.before, L.i, k)
                        /\ L.afterIdentity = Exchanged(L.beforeIdentity, L.i, k)
    /\ inv_pc = "thrown" => (inv_log # <<>> /\ inv_log[Len(inv_log)].thrown)
    /\ inv_pc = "thrown" => ~inverse(inv_m).ok
    /\ inv_pc = "returned" =>
          /\ inverse(inv_m).ok
          /\ inverse(inv_m).m = inv_identity
          /\ Len(inv_log) = Len(inv_m)

\* C15 witness: in a 3 x 3 matrix the pivot of the first pass was 0, the
\* second row was of no use and the third was swapped in; inverse returned.
C15_Witness ==
    /\ inv_pc = "returned"
    /\ Len(inv_m) = 3
    /\ inv_log[1].before[1][1] = Zero
    /\ UsableBelow(inv_log[1].before, 1) = {3}
    /\ inv_log[1].after[1] = inv_m[3]
    /\ inv_log[1].afterIdentity[1] = <<Zero, Zero, One>>

\* C15 witness of the failure: a pivot of 0 in the second pass with nothing
\* usable below it.
C15_WitnessThrown ==
    /\ inv_pc = "thrown"
    /\ Len(inv_m) = 3
    /\ Len(inv_log) = 2

\* Column j of X has zero variance: its observations are all equal.
EqualObservations(X, j) == \A i \in 1..Len(X) : X[i][j] = X[1][j]

\* The restricted correlation matrix: that of the columns in keep, in order.
RestrictedCorrelation(X, keep) ==
    LET cols == SelectSeq([j \in 1..Len(X[1]) |-> j], LAMBDA j : j \in keep)
    IN  computeCorrelationMatrix([r \in 1..Len(X) |-> [i \in 1..Len(cols) |-> X[r][cols[i]]]])

\* The VIFs as stated: +infinity for the columns outside keep; +infinity for
\* all when the restricted correlation matrix has no inverse; otherwise the
\* diagonal element of that inverse.
StatedVIFs(X, keep) ==
    LET R_inv == inverse(RestrictedCorrelation(X, keep))
        at(j) == Cardinality({v \in keep : v <= j})
    IN  [j \in 1..Len(X[1]) |->
            IF j \notin keep \/ ~R_inv.ok THEN PInf ELSE R_inv.m[at(j)][at(j)]]

VIFsWithTwoVarying ==
    (vif_pc = "returned" /\ Cardinality({j \in 1..Len(vif_X[1]) : HasVariance(vif_X, j)}) >= 2) =>
        vif_result = StatedVIFs(vif_X, {j \in 1..Len(vif_X[1]) : HasVariance(vif_X, j)})

\* The number of iterations so far whose refit returned estimates.
RECURSIVE SuccessCount(_)
SuccessCount(fits) ==
    IF fits = <<>> THEN 0
    ELSE (IF Head(fits) THEN 1 ELSE 0) + SuccessCount(Tail(fits))

\* The place in robustness of the summary of coefficient j.
EntryOf(j) ==
    Cardinality({i \in 1..j : result.coefficients[i].name # "Intercept"})

\* C21: every iteration is run once, whether its refit fails or not; a
\* failed one adds no estimate, so at any point of the loop and after it every
\* coefficient has as many estimates as there were successful iterations, at
\* most BOOTSTRAP_ITERATIONS; and each figure of a summary is one of the
\* estimates collected for its coefficient (their mean for bootstrapMean).
C21_FailedIterationsDropped ==
    /\ pc \in {"bootstrap", "returned"} =>
          /\ Len(bootFits) = iter
          /\ iter <= BOOTSTRAP_ITERATIONS
          /\ \A j \in 1..Len(bootstrapBetas) :
                Len(bootstrapBetas[j]) = SuccessCount(bootFits)
    /\ pc = "returned" =>
          /\ Len(bootFits) = BOOTSTRAP_ITERATIONS
          /\ \A j \in 1..Len(bootstrapBetas) :
                (result.coefficients[j].name # "Intercept" /\ SuccessCount(bootFits) > 0) =>
                    LET r == robustness[EntryOf(j)]
                        got == {bootstrapBetas[j][i] : i \in 1..Len(bootstrapBetas[j])}
                    IN  /\ {r.bootstrapMedian, r.bootstrapMin, r.bootstrapMax,
                             r.bootstrapLowCI, r.bootstrapHighCI} \subseteq got
                        /\ r.bootstrapMean = mean(bootstrapBetas[j])

\* C21 witness: a call returned after a loop in which some refits failed and
\* some succeeded, with a summary built from the successful ones.
C21_Witness ==
    /\ pc = "returned"
    /\ \E i \in 1..Len(bootFits) : ~bootFits[i]
    /\ SuccessCount(bootFits) > 0
    /\ Len(robustness) > 0

\* sorted[idx], counting from 0, or the fallback when idx is out of range.
AtOr(sorted, idx, fallback) ==
    IF idx < Len(sorted) THEN sorted[idx + 1] ELSE fallback

\* C22: for every coefficient not named Intercept with len >= 1 estimates,
\* sorted ascending, the summary has bootstrapMedian = sorted[floor(len/2)],
\* bootstrapLowCI = sorted[floor(len * 0.025)] and bootstrapHighCI =
\* sorted[floor(len * 0.975)]; the minimum or the maximum stands in only for
\* an index out of range, whatever value is stored at the index.
C22_Percentiles ==
    pc = "returned" =>
        \A j \in 1..Len(bootstrapBetas) :
            (result.coefficients[j].name # "Intercept" /\ Len(bootstrapBetas[j]) >= 1) =>
                LET sorted == bootstrapBetas[j]
                    len == Len(sorted)
                    r == robustness[EntryOf(j)]
                IN  /\ \A i \in 1..(len - 1) : Le(sorted[i], sorted[i + 1])
                    /\ r.bootstrapMedian = sorted[(len \div 2) + 1]
                    /\ r.bootstrapLowCI = AtOr(sorted, (len * 25) \div 1000, sorted[1])
                    /\ r.bootstrapHighCI = AtOr(sorted, (len * 975) \div 1000, sorted[len])

\* C23: from the start of the bootstrap loop to its end, whatever the draws
\* and whether the refits succeed or fail, the row arrays of X_raw and the
\* array Y hold what they held before the loop, although X_sample is made of
\* the row arrays of X_raw themselves.
C23_DesignUnchanged ==
    heap_pc # "idle" =>
        /\ MatrixAt(heap, ref_X) = X_raw
        /\ heap[ref_Y].nums = Y
        /\ heap_pc = "solve" =>
              \A i \in 1..Len(heap[ref_X_sample].refs) :
                  \E r \in 1..Len(heap[ref_X].refs) :
                      heap[ref_X_sample].refs[i] = heap[ref_X].refs[r]

\* C23 witness: the loop is over, refits on shared rows succeeded and failed.
C23_Witness ==
    /\ heap_pc = "draw"
    /\ iter = BOOTSTRAP_ITERATIONS
    /\ Len(bootFits) = BOOTSTRAP_ITERATIONS
    /\ \E i \in 1..Len(bootFits) : bootFits[i]
    /\ \E i \in 1..Len(bootFits) : ~bootFits[i]
    /\ Len(X_raw[1]) >= 2

\* C24: whatever was clicked before, a configuration handed to
\* onConfigComplete has logPlusOne only together with logTransform for every
\* feature, neither flag for a categorical feature, and targetLogPlusOne only
\* together with targetLogTransform.
C24_HandedConfigWellFormed ==
    \A i \in 1..Len(vs_handed) :
        /\ \A f \in vs_handed[i].features :
              /\ f.logPlusOne => f.logTransform
              /\ f.type = "categorical" => (~f.logTransform /\ ~f.logPlusOne)
        /\ vs_handed[i].targetLogPlusOne => vs_handed[i].targetLogTransform

\* C24 witness: a configuration was handed over in which one feature is
\* categorical, one has Ln and +1, and the target has Ln and +1.
C24_Witness ==
    /\ Len(vs_handed) = 1
    /\ vs_handed[1].targetLogPlusOne
    /\ \E f \in vs_handed[1].features : f.type = "categorical"
    /\ \E f \in vs_handed[1].features : f.logPlusOne

\* C25: once solveOLS has been called for the main fit, every entry of the
\* design matrix and of the target vector is a finite number.
C25_FiniteDesign ==
    solverCalls # <<>> =>
        /\ \A i \in 1..Len(X_raw) : \A j \in 1..Len(X_raw[i]) : IsFinite(X_raw[i][j])
        /\ \A i \in 1..Len(Y) : IsFinite(Y[i])

\* C26: a returned result has an r2 and an adjustedR2 that are finite
\* numbers, also when all clean rows have the same target value.
C26_FiniteFit ==
    pc = "done" => (IsFinite(result.r2) /\ IsFinite(result.adjustedR2))

\* The error of the first failing check in the order empty dataset,
\* constant numeric variable (first in feature order), identical numeric pair
\* (first in pair order), n <= k, singular main fit; "none" when none fails.
FirstFailingCheck ==
    LET c == FirstConstant(featureVars, cleanData)
        p == FirstIdenticalPair(featureVars, cleanData)
        Yv == TargetVector(cleanData, targetVar, targetLogTransform, targetLogPlusOne)
        X == DesignMatrix(featureVars, cleanData)
    IN  IF cleanData = <<>> THEN [error |-> "EmptyDataset", vars |-> <<>>]
        ELSE IF c # 0 THEN [error |-> "ConstantVariable", vars |-> <<featureVars[c].name>>]
        ELSE IF p # <<0, 0>>
             THEN [error |-> "DuplicateVariable",
                   vars |-> <<featureVars[p[1]].name, featureVars[p[2]].name>>]
        ELSE IF Len(Yv) <= Len(FeatureNames(featureVars, cleanData))
             THEN [error |-> "InsufficientSampleSize", vars |-> <<>>]
        ELSE IF ~solveOLS(X, Yv).ok THEN [error |-> "SingularMatrix", vars |-> <<>>]
        ELSE [error |-> "none", vars |-> <<>>]

\* The order in which the checks are evaluated.
CheckOrder == <<"empty", "constant", "identical", "size", "singular">>

\* C27: the failure checks are evaluated in the order of CheckOrder, each run
\* stopping at the first that fails, and a finished run has raised the error
\* of the first failing check of that order (none when it returned).  In
\* particular a single clean row with a numeric feature, and a pair of
\* identical constant columns, raise the constant-variable error.
C27_FirstFailingCheckWins ==
    /\ checks = SubSeq(CheckOrder, 1, Len(checks))
    /\ Finished =>
          /\ error = FirstFailingCheck.error
          /\ errorVars = FirstFailingCheck.vars
          /\ (Len(cleanData) = 1 /\ \E i \in 1..Len(featureVars) : featureVars[i].type = "numeric")
                => error = "ConstantVariable"
          /\ (\E i, j \in 1..Len(featureVars) :
                  /\ i < j /\ SameColumns(featureVars[i], featureVars[j])
                  /\ ZeroVariance(featureVars[i]) /\ ZeroVariance(featureVars[j]))
                => error = "ConstantVariable"

\* C28: the column names of a built design matrix are pairwise distinct
\* whenever the feature names are.
C28_DistinctColumnNames ==
    (/\ Built
     /\ \A i, j \in 1..Len(featureVars) : i # j => featureVars[i].name # featureVars[j].name) =>
        \A i, j \in 1..Len(featureNames) : i # j => featureNames[i] # featureNames[j]

\* C29: a summary built from at least one estimate, all of them finite, has
\* bootstrapMin <= bootstrapLowCI <= bootstrapMedian <= bootstrapHighCI <=
\* bootstrapMax and bootstrapMin <= bootstrapMean <= bootstrapMax.
C29_SummaryOrdered ==
    \A i \in 1..Len(dbl_entry) :
        LET r == dbl_entry[i]
        IN  /\ DLe(r.bootstrapMin, r.bootstrapLowCI)
            /\ DLe(r.bootstrapLowCI, r.bootstrapMedian)
            /\ DLe(r.bootstrapMedian, r.bootstrapHighCI)
            /\ DLe(r.bootstrapHighCI, r.bootstrapMax)
            /\ DLe(r.bootstrapMin, r.bootstrapMean)
            /\ DLe(r.bootstrapMean, r.bootstrapMax)

\* C30: App is at RESULTS only with a result and without an error, and gets
\* there only when handleConfigComplete continues after a return of
\* performRegression; when the call throws, the handler leaves App at CONFIG
\* with an error and the history as it was; when it returns, the handler
\* puts exactly one entry in front of the history.
C30_ResultsOnlyAfterSuccess ==
    /\ [](currentState = "RESULTS" => regressionResult # <<>> /\ app_error = <<>>)
    /\ [][/\ (currentState' = "RESULTS" /\ currentState # "RESULTS") =>
                (/\ app_pc = "calling"
                 /\ pc = "returned"
                 /\ regressionResult' = <<returns[Len(returns)]>>)
          /\ (app_pc = "calling" /\ app_pc' = "idle" /\ pc = "failed") =>
                (/\ currentState = "CONFIG"
                 /\ currentState' = "CONFIG"
                 /\ app_error' # <<>>
                 /\ history' = history)
          /\ (app_pc = "calling" /\ app_pc' = "idle" /\ pc = "returned") =>
                (/\ currentState' = "RESULTS"
                 /\ Len(history') = Len(history) + 1
                 /\ SubSeq(history', 2, Len(history')) = history
                 /\ \A i \in 1..Len(history) : history[i].id # history'[1].id)]_vars

\* A call that failed after an earlier one succeeded: App is at CONFIG with
\* the error, and the history holds the entry of the success.
C30_Witness ==
    /\ currentState = "CONFIG"
    /\ app_pc = "idle"
    /\ app_error # <<>>
    /\ pc = "failed"
    /\ Len(history) = 1
    /\ history[1].id = 1

====
